---- MODULE Spec2Model ----
(***************************************************************************)
(* Model of the bmc-secret-operator synchronization engine: the BMCSecret  *)
(* reconciler (internal/controller/bmcsecret_controller.go), the backend   *)
(* factory cache (internal/secretbackend/factory.go), engine routing       *)
(* (internal/secretbackend/multi_engine.go), the path builder and the      *)
(* device resolver helpers.                                                *)
(*                                                                         *)
(* Conventions                                                             *)
(*  - Go strings that the code parses (sync-label specs, label keys and    *)
(*    label values) are sequences of tokens: "team=a" is                   *)
(*    <<"team", "=", "a">>, "" is <<>>.                                    *)
(*  - A rendered path is the sequence of its "/"-separated segments.       *)
(*  - A Go pointer / optional value is a sequence of length 0 (nil) or 1.  *)
(*  - A Go map is a function whose DOMAIN is the set of keys present.      *)
(***************************************************************************)
EXTENDS Integers, Sequences, FiniteSets, TLC

(***************************************************************************)
(* Bounds of the exploration.                                              *)
(***************************************************************************)
MaxPasses == 2
MaxEnv == 1
MaxFaults == 1
MaxVersions == 2
MaxBuilds == 2
MaxUpserts == 3
MaxCalls == 3

(***************************************************************************)
(* Program constants.                                                      *)
(***************************************************************************)
requeueAfterNormal == 300
requeueAfterError == 30

(***************************************************************************)
(* Generic helpers.                                                        *)
(***************************************************************************)
Nil == <<>>
Some(x) == <<x>>
IsNil(o) == o = <<>>
Val(o) == o[1]

EmptyMap == [k \in {} |-> <<>>]

\* Go map lookup m[k]: the zero value when the key is absent.
Lookup(m, k, zero) == IF k \in DOMAIN m THEN m[k] ELSE zero

MapPut(m, k, v) == [x \in (DOMAIN m) \cup {k} |-> IF x = k THEN v ELSE m[x]]

MapDel(m, k) == [x \in (DOMAIN m) \ {k} |-> m[x]]

RECURSIVE IndexOf(_, _, _)
\* Index of the first occurrence of tok in s at or after i, 0 if none.
IndexOf(s, tok, i) ==
  IF i > Len(s) THEN 0
  ELSE IF s[i] = tok THEN i
  ELSE IndexOf(s, tok, i + 1)

(***************************************************************************)
(* Path templates (PathBuilder).  A template string is a sequence of       *)
(* "/"-separated parts: a literal, a field reference {{.Region}},          *)
(* {{.Hostname}}, {{.Username}}, a reference to a field PathVariables does *)
(* not have guarded by a comparison ({{if eq .Region "x"}}{{.Nope}}{{end}})*)
(* which parses but fails at execution for some variable sets, or an       *)
(* unclosed action, which fails to parse.                                  *)
(***************************************************************************)
Lit(s) == [t |-> "lit", s |-> s, f |-> "", v |-> ""]
Field(f) == [t |-> "field", s |-> "", f |-> f, v |-> ""]
BadIf(f, v) == [t |-> "badif", s |-> "", f |-> f, v |-> v]
Unclosed == [t |-> "unclosed", s |-> "", f |-> "", v |-> ""]

DefaultTemplate == <<Lit("bmc"), Field("Region"), Field("Hostname"), Field("Username")>>
ProdTemplate == <<Lit("prod"), Field("Hostname"), Field("Username")>>
PickyTemplate == <<Lit("bmc"), BadIf("Region", "unknown"), Field("Region"), Field("Hostname"), Field("Username")>>
BrokenTemplate == <<Lit("bmc"), Unclosed>>

\* NewPathBuilder: parse the template; a builder (the parsed template) or an error.
NewPathBuilder(templateStr) ==
  IF \E i \in 1..Len(templateStr) : templateStr[i].t = "unclosed"
  THEN [err |-> TRUE, pb |-> <<>>]
  ELSE [err |-> FALSE, pb |-> templateStr]

RECURSIVE Execute(_, _, _, _)
RECURSIVE ExecuteRejectingEmpty(_, _, _, _)
\* A variant of the template execution that fails on a field whose value is empty.
ExecuteRejectingEmpty(pb, vars, i, buf) ==
  IF i > Len(pb) THEN [err |-> FALSE, out |-> buf]
  ELSE IF pb[i].t = "lit" THEN ExecuteRejectingEmpty(pb, vars, i + 1, Append(buf, pb[i].s))
  ELSE IF pb[i].t = "field" /\ vars[pb[i].f] = "" THEN [err |-> TRUE, out |-> buf]
  ELSE IF pb[i].t = "field" THEN ExecuteRejectingEmpty(pb, vars, i + 1, Append(buf, vars[pb[i].f]))
  ELSE [err |-> TRUE, out |-> buf]

\* template.Execute: emit the parts in order into the buffer, stop at the first failing part.
Execute(pb, vars, i, buf) ==
  IF i > Len(pb) THEN [err |-> FALSE, out |-> buf]
  ELSE IF pb[i].t = "lit" THEN Execute(pb, vars, i + 1, Append(buf, pb[i].s))
  ELSE IF pb[i].t = "field" THEN Execute(pb, vars, i + 1, Append(buf, vars[pb[i].f]))
  ELSE IF pb[i].t = "badif" /\ vars[pb[i].f] = pb[i].v THEN [err |-> TRUE, out |-> buf]
  ELSE IF pb[i].t = "badif" THEN Execute(pb, vars, i + 1, buf)
  ELSE [err |-> TRUE, out |-> buf]

\* PathBuilder.Build: the rendered path, or "" and an error.
Build(pb, vars) ==
  LET r == Execute(pb, vars, 1, <<>>)
  IN IF r.err THEN [err |-> TRUE, path |-> <<>>] ELSE [err |-> FALSE, path |-> r.out]

PathVariables(region, hostname, username) ==
  [Region |-> region, Hostname |-> hostname, Username |-> username]

\* A variant of the region lookup that yields the empty text for a missing label.
ExtractRegionFromBMCEmpty(bmc, regionLabelKey) ==
  IF regionLabelKey \notin DOMAIN bmc.Labels THEN "" ELSE bmc.Labels[regionLabelKey]

(***************************************************************************)
(* Device resolver helpers.                                                *)
(***************************************************************************)
\* ExtractRegionFromBMC: the region label, "unknown" when absent or empty.
ExtractRegionFromBMC(bmc, regionLabelKey) ==
  IF regionLabelKey \notin DOMAIN bmc.Labels \/ bmc.Labels[regionLabelKey] = ""
  THEN "unknown"
  ELSE bmc.Labels[regionLabelKey]

\* GetHostnameFromBMC: hostname, else endpoint reference name, else the BMC name.
GetHostnameFromBMC(bmc) ==
  IF ~IsNil(bmc.Hostname) /\ Val(bmc.Hostname) # "" THEN Val(bmc.Hostname)
  ELSE IF ~IsNil(bmc.EndpointRef) /\ Val(bmc.EndpointRef) # "" THEN Val(bmc.EndpointRef)
  ELSE bmc.Name

\* ExtractCredentials: username and password of the record's data, an error if either is missing.
ExtractCredentials(bmcSecret) ==
  IF "username" \notin DOMAIN bmcSecret.Data THEN [err |-> TRUE, username |-> "", password |-> ""]
  ELSE IF "password" \notin DOMAIN bmcSecret.Data THEN [err |-> TRUE, username |-> "", password |-> ""]
  ELSE [err |-> FALSE, username |-> bmcSecret.Data["username"], password |-> bmcSecret.Data["password"]]

(***************************************************************************)
(* Engine routing (multi_engine.go).                                       *)
(***************************************************************************)
\* parseSyncLabel: strings.SplitN(syncLabel, "=", 2).
parseSyncLabel(syncLabel) ==
  LET i == IndexOf(syncLabel, "=", 1)
  IN IF i = 0 THEN [key |-> syncLabel, val |-> <<>>]
     ELSE [key |-> SubSeq(syncLabel, 1, i - 1), val |-> SubSeq(syncLabel, i + 1, Len(syncLabel))]

\* EngineBackend.MatchesLabels.
MatchesLabels(e, labels) ==
  IF e.SyncLabelVal = <<>> THEN e.SyncLabelKey \in DOMAIN labels
  ELSE e.SyncLabelKey \in DOMAIN labels /\ labels[e.SyncLabelKey] = e.SyncLabelVal

\* BackendFactory.filterEnginesByLabels: the matching engines, in configuration order.
filterEnginesByLabels(engines, labels) ==
  SelectSeq(engines, LAMBDA e : MatchesLabels(e, labels))


(***************************************************************************)
(* Configuration: the SecretBackendConfig record of the registry (crd),    *)
(* the process environment, and the internal Config built from either.     *)
(***************************************************************************)
S(tok) == <<tok>>
KV(k, v) == <<k, "=", v>>

EngineCfg(name, mount, tmpl, syncLabel) ==
  [Name |-> name, MountPath |-> mount, PathTemplate |-> tmpl, SyncLabel |-> syncLabel]

CRD(syncLabel, tmpl, engines) ==
  [Backend |-> "vault",
   VaultConfig |-> Some([MountPath |-> "", SecretEngines |-> engines]),
   PathTemplate |-> tmpl, RegionLabelKey |-> "", SyncLabel |-> syncLabel]

TeamEngines ==
  << EngineCfg("team-a", "team-a", <<>>, KV("team", "a")),
     EngineCfg("crit", "crit", ProdTemplate, S("critical")) >>

PlainCRD == CRD(<<>>, <<>>, <<>>)
LabelCRD == CRD(S("sync"), <<>>, <<>>)
LabelValueCRD == CRD(KV("sync", "true"), <<>>, <<>>)
MultiCRD == CRD(<<>>, <<>>, TeamEngines)
PickyCRD == CRD(<<>>, PickyTemplate, <<>>)
BrokenCRD == CRD(<<>>, BrokenTemplate, <<>>)

\* A record naming the backend kind the schema admits but createBackend does not implement.
OpenBaoCRD == [PlainCRD EXCEPT !.Backend = "openbao"]

CRDs == {PlainCRD, LabelCRD, LabelValueCRD, MultiCRD, PickyCRD, BrokenCRD, OpenBaoCRD}

\* LoadConfigFromCRD: copy the record's fields and fill in the defaults.
LoadConfigFromCRD(crdConfig) ==
  [err |-> FALSE,
   cfg |-> [Backend |-> crdConfig.Backend,
            PathTemplate |-> IF crdConfig.PathTemplate = <<>> THEN DefaultTemplate
                             ELSE crdConfig.PathTemplate,
            RegionLabelKey |-> IF crdConfig.RegionLabelKey = "" THEN "region"
                               ELSE crdConfig.RegionLabelKey,
            SyncLabel |-> crdConfig.SyncLabel,
            VaultConfig |-> IF IsNil(crdConfig.VaultConfig) THEN Nil
                            ELSE Some([MountPath |->
                                   IF Val(crdConfig.VaultConfig).MountPath = "" THEN "secret"
                                   ELSE Val(crdConfig.VaultConfig).MountPath]),
            source |-> "crd"]]

NoConfig ==
  [Backend |-> "", PathTemplate |-> <<>>, RegionLabelKey |-> "", SyncLabel |-> <<>>,
   VaultConfig |-> Nil, source |-> ""]

\* LoadConfigFromEnv: SECRET_BACKEND_TYPE defaults to vault; VAULT_ADDR is required.
LoadConfigFromEnv(environ) ==
  IF ~environ.VAULT_ADDR THEN [err |-> TRUE, cfg |-> NoConfig]
  ELSE [err |-> FALSE,
        cfg |-> [Backend |-> "vault", PathTemplate |-> DefaultTemplate,
                 RegionLabelKey |-> "region", SyncLabel |-> environ.SYNC_LABEL,
                 VaultConfig |-> Some([MountPath |-> "secret"]), source |-> "env"]]

\* BackendFactory.loadConfig: the registry record when the lookup succeeds, else the environment.
\* reg is the result of client.Get: Nil when the lookup failed (not found or any other error).
loadConfig(reg, environ) ==
  IF ~IsNil(reg) THEN LoadConfigFromCRD(Val(reg)) ELSE LoadConfigFromEnv(environ)

\* A store client bound to one mount (VaultBackend); engine is "" for the default store.
Backend(mount, engine) == [mount |-> mount, engine |-> engine]

\* BackendFactory.createBackend; connOK: vault.NewVaultBackend could connect and authenticate.
createBackend(config, connOK) ==
  IF config.Backend = "vault"
  THEN IF IsNil(config.VaultConfig) THEN [err |-> TRUE, backend |-> Nil]
       ELSE IF ~connOK THEN [err |-> TRUE, backend |-> Nil]
       ELSE [err |-> FALSE, backend |-> Some(Backend(Val(config.VaultConfig).MountPath, ""))]
  ELSE [err |-> TRUE, backend |-> Nil]

(***************************************************************************)
(* BackendFactory: the cached backend, path builder, config and engine     *)
(* backends.  Each operation runs under the factory lock; it yields the    *)
(* factory state after the call, the value returned and the error flag.    *)
(***************************************************************************)
EmptyFactory == [backend |-> Nil, pathBuilder |-> Nil, config |-> Nil, engineBackends |-> Nil]

GetBackend(f, reg, environ, connOK) ==
  IF ~IsNil(f.backend) THEN [f |-> f, err |-> FALSE, val |-> f.backend]
  ELSE LET c == loadConfig(reg, environ)
       IN IF c.err THEN [f |-> f, err |-> TRUE, val |-> Nil]
          ELSE LET b == createBackend(c.cfg, connOK)
               IN IF b.err THEN [f |-> f, err |-> TRUE, val |-> Nil]
                  ELSE [f |-> [f EXCEPT !.backend = b.backend, !.config = Some(c.cfg)],
                        err |-> FALSE, val |-> b.backend]

\* The config load shared by GetPathBuilder, GetRegionLabelKey, GetSyncLabel and
\* GetEngineBackends: "if f.config == nil { load; f.config = config }".
ensureConfig(f, reg, environ) ==
  IF ~IsNil(f.config) THEN [f |-> f, err |-> FALSE]
  ELSE LET c == loadConfig(reg, environ)
       IN IF c.err THEN [f |-> f, err |-> TRUE]
          ELSE [f |-> [f EXCEPT !.config = Some(c.cfg)], err |-> FALSE]

GetPathBuilder(f, reg, environ) ==
  IF ~IsNil(f.pathBuilder) THEN [f |-> f, err |-> FALSE, val |-> f.pathBuilder]
  ELSE LET l == ensureConfig(f, reg, environ)
       IN IF l.err THEN [f |-> f, err |-> TRUE, val |-> Nil]
          ELSE LET p == NewPathBuilder(Val(l.f.config).PathTemplate)
               IN IF p.err THEN [f |-> l.f, err |-> TRUE, val |-> Nil]
                  ELSE [f |-> [l.f EXCEPT !.pathBuilder = Some(p.pb)],
                        err |-> FALSE, val |-> Some(p.pb)]

GetRegionLabelKey(f, reg, environ) ==
  LET l == ensureConfig(f, reg, environ)
  IN IF l.err THEN [f |-> f, err |-> TRUE, val |-> ""]
     ELSE [f |-> l.f, err |-> FALSE, val |-> Val(l.f.config).RegionLabelKey]

GetSyncLabel(f, reg, environ) ==
  LET l == ensureConfig(f, reg, environ)
  IN IF l.err THEN [f |-> f, err |-> TRUE, val |-> <<>>]
     ELSE [f |-> l.f, err |-> FALSE, val |-> Val(l.f.config).SyncLabel]

RECURSIVE parseSecretEngineConfig(_, _, _)
\* parseSecretEngineConfig: one EngineBackend per configured engine, in order;
\* conn[i] tells whether the store client of engine i could be created.
parseSecretEngineConfig(engines, conn, i) ==
  IF i > Len(engines) THEN [err |-> FALSE, ebs |-> <<>>]
  ELSE IF ~conn[i] THEN [err |-> TRUE, ebs |-> <<>>]
  ELSE LET sl == parseSyncLabel(engines[i].SyncLabel)
           pb == NewPathBuilder(IF engines[i].PathTemplate = <<>> THEN DefaultTemplate
                                ELSE engines[i].PathTemplate)
           rest == parseSecretEngineConfig(engines, conn, i + 1)
       IN IF pb.err \/ rest.err THEN [err |-> TRUE, ebs |-> <<>>]
          ELSE [err |-> FALSE,
                ebs |-> <<[Backend |-> Backend(engines[i].MountPath, engines[i].Name),
                           EngineName |-> engines[i].Name,
                           PathBuilder |-> pb.pb,
                           SyncLabel |-> engines[i].SyncLabel,
                           SyncLabelKey |-> sl.key,
                           SyncLabelVal |-> sl.val]>> \o rest.ebs]

\* GetEngineBackends; reg1 is the lookup of loadConfig, reg2 the second lookup for the engines.
GetEngineBackends(f, labels, reg1, reg2, environ, conn) ==
  IF ~IsNil(f.engineBackends)
  THEN [f |-> f, err |-> FALSE, val |-> filterEnginesByLabels(Val(f.engineBackends), labels)]
  ELSE LET l == ensureConfig(f, reg1, environ)
       IN IF l.err THEN [f |-> f, err |-> TRUE, val |-> <<>>]
          ELSE IF IsNil(Val(l.f.config).VaultConfig) THEN [f |-> l.f, err |-> FALSE, val |-> <<>>]
          ELSE IF IsNil(reg2) THEN [f |-> l.f, err |-> FALSE, val |-> <<>>]
          ELSE LET engines == IF IsNil(Val(reg2).VaultConfig) THEN <<>>
                              ELSE Val(Val(reg2).VaultConfig).SecretEngines
               IN IF Len(engines) = 0 THEN [f |-> l.f, err |-> FALSE, val |-> <<>>]
                  ELSE LET p == parseSecretEngineConfig(engines, conn, 1)
                       IN IF p.err THEN [f |-> l.f, err |-> TRUE, val |-> <<>>]
                          ELSE [f |-> [l.f EXCEPT !.engineBackends = Some(p.ebs)],
                                err |-> FALSE,
                                val |-> filterEnginesByLabels(p.ebs, labels)]

\* BackendFactory.InvalidateCache.  closeErr: Close of the cached backend returns an
\* error; engineCloseErr: Close of one of the cached engine backends does.  Backend.Close
\* is an interface method returning an error; the factory returns at the first one.
InvalidateCache(f, closeErr, engineCloseErr) ==
  IF ~IsNil(f.backend) /\ closeErr THEN [f |-> f, err |-> TRUE]
  ELSE IF ~IsNil(f.engineBackends) /\ engineCloseErr
  THEN [f |-> [f EXCEPT !.backend = Nil], err |-> TRUE]
  ELSE [f |-> [backend |-> Nil, pathBuilder |-> Nil, config |-> Nil, engineBackends |-> Nil],
        err |-> FALSE]

\* BackendFactory.Close: closes the cached backend, if any, and forgets it.
Close(f, closeErr) ==
  IF IsNil(f.backend) THEN [f |-> f, err |-> FALSE]
  ELSE IF closeErr THEN [f |-> f, err |-> TRUE]
  ELSE [f |-> [f EXCEPT !.backend = Nil], err |-> FALSE]

\* HasMultiEngineConfig: reads the registry record directly, never the cache.
HasMultiEngineConfig(reg) ==
  IF IsNil(reg) THEN FALSE
  ELSE IF ~IsNil(Val(reg).VaultConfig) THEN Len(Val(Val(reg).VaultConfig).SecretEngines) > 0
  ELSE FALSE

(***************************************************************************)
(* The secret store.  vault maps <<mount, path>> to the stored data; a     *)
(* data value is a string or something else (a number, a nested map).      *)
(* Every operation can fail in transport (fault).                          *)
(***************************************************************************)
Str(x) == [str |-> TRUE, v |-> x]
NonStr == [str |-> FALSE, v |-> "0"]

StoreKey(backend, path) == <<backend.mount, path>>

\* VaultBackend.buildPath under KV version 2: the mount, "data", then the path.
buildPath(backend, path) == <<backend.mount, "data">> \o path

\* The text by which SecretExists recognises a missing secret in an error message.
NotFoundText == "secret not found"

\* VaultBackend.ReadSecret.  An error carries its message as a sequence of pieces: the
\* prefix, the full path, and the cause; a missing secret is the cause NotFoundText.
ReadSecret(v, backend, path, fault) ==
  IF fault
  THEN [err |-> "transport",
        msg |-> <<"failed to read secret from vault at">> \o buildPath(backend, path)
                  \o <<"connection refused">>,
        data |-> EmptyMap]
  ELSE IF StoreKey(backend, path) \notin DOMAIN v
  THEN [err |-> "notfound",
        msg |-> <<"failed to read secret from vault at">> \o buildPath(backend, path)
                  \o <<NotFoundText>>,
        data |-> EmptyMap]
  ELSE [err |-> "none", msg |-> <<>>, data |-> v[StoreKey(backend, path)]]

\* VaultBackend.SecretExists: a read error whose message contains NotFoundText means
\* "does not exist"; any other read error is returned.
SecretExists(v, backend, path, fault) ==
  LET r == ReadSecret(v, backend, path, fault)
  IN IF r.err # "none"
     THEN IF \E i \in 1..Len(r.msg) : r.msg[i] = NotFoundText
          THEN [err |-> FALSE, exists |-> FALSE]
          ELSE [err |-> TRUE, exists |-> FALSE]
     ELSE [err |-> FALSE, exists |-> TRUE]

\* A variant of the write that reports success without storing anything.
WriteSecretDropping(v, backend, path, data, fault) ==
  IF fault THEN [err |-> TRUE, vault |-> v]
  ELSE [err |-> FALSE, vault |-> v]

\* VaultBackend.WriteSecret.
WriteSecret(v, backend, path, data, fault) ==
  IF fault THEN [err |-> TRUE, vault |-> v]
  ELSE [err |-> FALSE, vault |-> MapPut(v, StoreKey(backend, path), data)]

\* A variant of the delete that reports success and leaves the secret where it is.
DeleteSecretKeeping(v, backend, path, fault) ==
  IF fault THEN [err |-> TRUE, vault |-> v]
  ELSE [err |-> FALSE, vault |-> v]

\* VaultBackend.DeleteSecret: under KV version 2 the metadata delete, which removes the
\* secret with all its versions.
DeleteSecret(v, backend, path, fault) ==
  IF fault THEN [err |-> TRUE, vault |-> v]
  ELSE [err |-> FALSE, vault |-> MapDel(v, StoreKey(backend, path))]

\* A variant of needsUpdate that tests existence only and never compares the password.
needsUpdateExistsOnly(v, backend, path, password, fe, fr) ==
  LET ex == SecretExists(v, backend, path, fe)
  IN IF ex.err THEN [err |-> TRUE, needs |-> FALSE, reached |-> "exists"]
     ELSE [err |-> FALSE, needs |-> ~ex.exists, reached |-> "exists"]

\* needsUpdate: does the secret at path have to be written?  fe / fr: the existence
\* check / the read fails.  reached tells which of the two calls were made.
needsUpdate(v, backend, path, password, fe, fr) ==
  LET ex == SecretExists(v, backend, path, fe)
      rd == ReadSecret(v, backend, path, fr)
  IN IF ex.err THEN [err |-> TRUE, needs |-> FALSE, reached |-> "exists"]
     ELSE IF ~ex.exists THEN [err |-> FALSE, needs |-> TRUE, reached |-> "exists"]
     ELSE IF rd.err # "none" THEN [err |-> TRUE, needs |-> FALSE, reached |-> "read"]
     ELSE IF "password" \notin DOMAIN rd.data \/ ~rd.data["password"].str
          THEN [err |-> FALSE, needs |-> TRUE, reached |-> "read"]
     ELSE [err |-> FALSE, needs |-> rd.data["password"].v # password, reached |-> "read"]

\* A variant of the written data that leaves the password out.
secretDataUsernameOnly(username, password) == [k \in {"username"} |-> Str(username)]

secretData(username, password) == [username |-> Str(username), password |-> Str(password)]

BackendPath(path, bmc, region, hostname, username, status, errmsg) ==
  [Path |-> path, BMCName |-> bmc.Name, Region |-> region, Hostname |-> hostname,
   Username |-> username, SyncStatus |-> status, ErrorMessage |-> errmsg]

\* The body of the per-BMC loop of reconcileSingleEngine (engine = "") and of
\* reconcileMultiEngine (engine = the engine's name): render the path, decide, write.
\* fk names the store call that fails, "none" for none.  The result carries the store
\* afterwards, the status entry, the store calls issued and whether the fault was hit.
syncPair(v, backend, pathBuilder, engine, bmc, regionLabelKey, username, password, fk) ==
  LET region == ExtractRegionFromBMC(bmc, regionLabelKey)
      hostname == GetHostnameFromBMC(bmc)
      b == Build(pathBuilder, PathVariables(region, hostname, username))
      nu == needsUpdate(v, backend, b.path, password, fk = "exists", fk = "read")
      w == WriteSecret(v, backend, b.path, secretData(username, password), fk = "write")
      call == [op |-> "write", mount |-> backend.mount, path |-> b.path,
               data |-> secretData(username, password)]
      E(status, msg) == BackendPath(b.path, bmc, region, hostname, username, status, msg)
  IN IF b.err
     THEN [vault |-> v, entry |-> E("Failed", <<engine, "render">>), calls |-> <<>>, hit |-> FALSE]
     ELSE IF nu.err
     THEN [vault |-> v, entry |-> E("Failed", <<engine, "check">>), calls |-> <<>>, hit |-> TRUE]
     ELSE IF ~nu.needs
     THEN [vault |-> v, entry |-> E("Success", <<>>), calls |-> <<>>, hit |-> FALSE]
     ELSE IF w.err
     THEN [vault |-> v, entry |-> E("Failed", <<engine, "write">>), calls |-> <<call>>, hit |-> TRUE]
     ELSE [vault |-> w.vault, entry |-> E("Success", <<>>), calls |-> <<call>>, hit |-> FALSE]

(***************************************************************************)
(* The status record (BMCSecretSyncStatus).                                *)
(***************************************************************************)
Condition(status, reason) == [Type |-> "Synced", Status |-> status, Reason |-> reason]

RECURSIVE setConditionAt(_, _, _)
\* A variant that overwrites the condition of the same type whatever it holds.
setConditionAtAlways(conditions, newCondition, i) ==
  IF \E j \in 1..Len(conditions) : conditions[j].Type = newCondition.Type
  THEN [j \in 1..Len(conditions) |->
          IF conditions[j].Type = newCondition.Type THEN newCondition ELSE conditions[j]]
  ELSE Append(conditions, newCondition)

setConditionAt(conditions, newCondition, i) ==
  IF i > Len(conditions) THEN Append(conditions, newCondition)
  ELSE IF conditions[i].Type = newCondition.Type
  THEN IF conditions[i].Status # newCondition.Status \/ conditions[i].Reason # newCondition.Reason
       THEN [conditions EXCEPT ![i] = newCondition]
       ELSE conditions
  ELSE setConditionAt(conditions, newCondition, i + 1)

\* A variant of setCondition that never touches a condition already there.
setConditionKeepFirst(conditions, newCondition) ==
  IF \E i \in 1..Len(conditions) : conditions[i].Type = newCondition.Type THEN conditions
  ELSE Append(conditions, newCondition)

\* setCondition: replace the first condition of the same type if status or reason differ, else append.
setCondition(conditions, newCondition) == setConditionAt(conditions, newCondition, 1)

EmptyStatus ==
  [BackendPaths |-> <<>>, TotalPaths |-> 0, SuccessfulPaths |-> 0, FailedPaths |-> 0,
   Conditions |-> <<>>]

\* A variant of syncedCondition without the partial case.
syncedConditionAllOrNothing(successfulPaths, failedPaths) ==
  IF failedPaths = 0 THEN Condition("True", "AllPathsSynced")
  ELSE Condition("False", "SyncFailed")

\* The condition updateSyncStatus derives from the counts.
syncedCondition(successfulPaths, failedPaths) ==
  IF failedPaths = 0 THEN Condition("True", "AllPathsSynced")
  ELSE IF successfulPaths > 0 THEN Condition("False", "PartialSync")
  ELSE Condition("False", "SyncFailed")

\* updateSyncStatus: create the status record if absent, then update its status.
\* fk names the registry call that fails: "get", "create", "get2", "update" or "none".
updateSyncStatus(st, backendPaths, totalPaths, successfulPaths, failedPaths, fk) ==
  LET created == IF IsNil(st) THEN Some(EmptyStatus) ELSE st
      new == [BackendPaths |-> backendPaths, TotalPaths |-> totalPaths,
              SuccessfulPaths |-> successfulPaths, FailedPaths |-> failedPaths,
              Conditions |-> setCondition(Val(created).Conditions,
                                          syncedCondition(successfulPaths, failedPaths))]
  IN IF fk = "get" THEN [st |-> st, err |-> TRUE, hit |-> TRUE]
     ELSE IF IsNil(st) /\ fk = "create" THEN [st |-> st, err |-> TRUE, hit |-> TRUE]
     ELSE IF IsNil(st) /\ fk = "get2" THEN [st |-> created, err |-> TRUE, hit |-> TRUE]
     ELSE IF fk = "update" THEN [st |-> created, err |-> TRUE, hit |-> TRUE]
     ELSE [st |-> Some(new), err |-> FALSE, hit |-> FALSE]

(***************************************************************************)
(* State.                                                                  *)
(***************************************************************************)
VARIABLES
  secret,      \* the credential record (BMCSecret) in the registry
  bmcList,     \* the device records (BMC) in the registry, in list order
  syncStatus,  \* the status record (BMCSecretSyncStatus) in the registry, Nil if absent
  crd,         \* the SecretBackendConfig record in the registry, Nil if absent
  environ,     \* the process environment
  vault,       \* the contents of the secret store
  factory,     \* the BackendFactory cache
  pc,          \* the position of the reconcile pass in flight
  loc,         \* the local variables of the pass
  log,         \* what the pass did: store calls, events, result
  passes,      \* passes delivered so far
  envUsed,     \* changes made by the environment so far
  faults,      \* failures injected so far
  cache        \* the history of the BackendFactory cache: loads, invalidations, readers

regVars == <<secret, bmcList, syncStatus, crd, environ>>
vars == <<secret, bmcList, syncStatus, crd, environ, vault, factory, pc, loc, log,
          passes, envUsed, faults, cache>>

BMC(name, labels, hostname, endpointRef, secretRef) ==
  [Name |-> name, Labels |-> labels, Hostname |-> hostname, EndpointRef |-> endpointRef,
   BMCSecretRef |-> secretRef]

SecretName == "creds"

Bmc1 == BMC("bmc-1", [k \in {"region"} |-> "us-east-1"], Some("host1"), Nil, SecretName)
Bmc2 == BMC("bmc-2", [k \in {} |-> ""], Nil, Nil, SecretName)
Bmc3 == BMC("bmc-3", [k \in {"region"} |-> "us-west-1"], Some("host3"), Nil, "other")

BmcLists == { <<Bmc3>>, <<Bmc1, Bmc3>>, <<Bmc1, Bmc2, Bmc3>> }

Labels1(k, v) == [x \in {k} |-> v]
Labels2(k1, v1, k2, v2) == [x \in {k1, k2} |-> IF x = k1 THEN v1 ELSE v2]

LabelSets ==
  { EmptyMap,
    Labels1(S("sync"), <<>>),
    Labels1(S("sync"), S("true")),
    Labels1(S("team"), S("a")),
    Labels2(S("team"), S("a"), S("critical"), S("yes")) }

Passwords == {"pw1", "pw2"}

FullData(pw) == [k \in {"username", "password"} |-> IF k = "username" THEN "admin" ELSE pw]
NoPasswordData == [k \in {"username"} |-> "admin"]

Gone == [exists |-> FALSE, Labels |-> EmptyMap, Data |-> NoPasswordData,
         deleting |-> FALSE, finalizer |-> FALSE]

Loc0 ==
  [bmcSecret |-> Gone, bmcs |-> <<>>, username |-> "", password |-> "",
   backend |-> Nil, pathBuilder |-> Nil, regionLabelKey |-> "", engineBackends |-> <<>>,
   e |-> 1, i |-> 1, backendPaths |-> <<>>, syncSuccess |-> 0, syncErrors |-> 0,
   cleanup |-> ""]

\* The cache history before anything happened: no configuration load yet (loads),
\* no load behind any cached field (origin), no change of the configuration record
\* (version) and none waiting for the configuration reconciler (pending), no
\* InvalidateCache call returned (invals; invalsOk: without error), Close not called,
\* and nothing handed out to the reader (got: the loads behind what it was handed),
\* whose pass began with no change of the record awaiting its invalidation (fresh).
Cache0 ==
  [loads |-> <<>>,
   origin |-> [backend |-> 0, pathBuilder |-> 0, config |-> 0, engineBackends |-> 0],
   version |-> 0, pending |-> FALSE, invals |-> 0, invalsOk |-> 0, closed |-> FALSE,
   got |-> {}, fresh |-> TRUE]

Log0 ==
  [at |-> "", err |-> FALSE, requeue |-> 0, events |-> <<>>, calls |-> <<>>, pairs |-> <<>>,
   statusErr |-> FALSE, hadStatus |-> FALSE]

Init ==
  /\ \E l \in LabelSets, d \in {FullData("pw1"), NoPasswordData} :
       secret = [exists |-> TRUE, Labels |-> l, Data |-> d, deleting |-> FALSE,
                 finalizer |-> FALSE]
  /\ bmcList \in BmcLists
  /\ syncStatus = Nil
  /\ \E c \in CRDs, a \in BOOLEAN :
       /\ crd \in {Some(c), Nil}
       /\ environ = [VAULT_ADDR |-> a, SYNC_LABEL |-> <<>>]
       /\ (a => c = PlainCRD)
  /\ vault = EmptyMap
  /\ factory = EmptyFactory
  /\ pc = "idle"
  /\ loc = Loc0
  /\ log = Log0
  /\ passes = 0
  /\ envUsed = 0
  /\ faults = 0
  /\ cache = Cache0

(***************************************************************************)
(* Failure injection and registry access.                                  *)
(***************************************************************************)
FaultSet == IF faults < MaxFaults THEN {FALSE, TRUE} ELSE {FALSE}
FaultKinds(kinds) == IF faults < MaxFaults THEN {"none"} \cup kinds ELSE {"none"}
Count(b) == IF b THEN faults + 1 ELSE faults

\* client.Get of the configuration record: Nil when absent or when the lookup fails.
RegGet(fault) == IF fault THEN Nil ELSE crd

\* client.Update of the credential record: rejected on a registry failure (a conflict
\* with a concurrent change of the record included) or when the record is gone.
\* A record with the deletion marker and no finalizer left is removed by the registry.
Update(obj, fault) ==
  IF fault \/ ~secret.exists THEN [err |-> TRUE, secret |-> secret]
  ELSE IF obj.deleting /\ ~obj.finalizer THEN [err |-> FALSE, secret |-> Gone]
  ELSE [err |-> FALSE, secret |-> obj]

\* FindBMCsForSecret: the listed devices that reference the record, in list order.
FindBMCsForSecret(list, secretName) ==
  SelectSeq(list, LAMBDA bmc : bmc.BMCSecretRef = secretName)

Return(at, err, requeue, events) ==
  [log EXCEPT !.at = at, !.err = err, !.requeue = requeue, !.events = log.events \o events]

(***************************************************************************)
(* Reconcile: one pass for the credential record, one action per call out  *)
(* of the reconciler.                                                      *)
(***************************************************************************)
\* The skip test of Reconcile: a sync label is configured and bmcSecret.Labels[syncLabel] == "".
lacksSyncLabel(bmcSecret, syncLabel) ==
  syncLabel # <<>> /\ Lookup(bmcSecret.Labels, syncLabel, <<>>) = <<>>

\* Reconcile, "Fetch the BMCSecret": the start of a pass.  A counted delivery is one
\* of at most MaxPasses; an uncounted one leaves the counter alone.
Fetch(counted) ==
  /\ pc \in {"idle", "done"}
  /\ counted => passes < MaxPasses
  /\ passes' = IF counted THEN passes + 1 ELSE passes
  /\ \E ft \in FaultSet :
       /\ faults' = Count(ft)
       /\ IF ft THEN
            /\ pc' = "done"
            /\ log' = [Log0 EXCEPT !.at = "get", !.err = TRUE]
            /\ loc' = Loc0
          ELSE IF ~secret.exists THEN
            /\ pc' = "done"
            /\ log' = [Log0 EXCEPT !.at = "notfound"]
            /\ loc' = Loc0
          ELSE
            /\ pc' = "syncLabel"
            /\ log' = [Log0 EXCEPT !.hadStatus = ~IsNil(syncStatus)]
            /\ loc' = [Loc0 EXCEPT !.bmcSecret = secret]
  /\ UNCHANGED <<regVars, vault, factory, envUsed, cache>>

ReconcileGet == Fetch(TRUE)

\* A variant of the dispatch that also cleans up for a record that merely
\* carries the finalizer.
ReconcileSyncLabelCleaningUp ==
  /\ pc = "syncLabel"
  /\ \E ft \in (IF IsNil(factory.config) THEN FaultSet ELSE {FALSE}) :
       LET r == GetSyncLabel(factory, RegGet(ft), environ)
       IN /\ faults' = Count(ft)
          /\ factory' = r.f
          /\ IF r.err THEN
               /\ pc' = "done"
               /\ log' = Return("syncLabel", TRUE, requeueAfterError, <<>>)
             ELSE IF lacksSyncLabel(loc.bmcSecret, r.val) THEN
               /\ pc' = "done"
               /\ log' = Return("skip", FALSE, 0, <<>>)
             ELSE IF loc.bmcSecret.deleting \/ loc.bmcSecret.finalizer THEN
               /\ pc' = "d_status"
               /\ UNCHANGED log
             ELSE
               /\ pc' = "addFinalizer"
               /\ UNCHANGED log
  /\ UNCHANGED <<regVars, vault, loc, passes, envUsed, cache>>

\* Reconcile, "Check if secret should be synced based on label" and the dispatch on
\* the deletion timestamp.
ReconcileSyncLabel ==
  /\ pc = "syncLabel"
  /\ \E ft \in (IF IsNil(factory.config) THEN FaultSet ELSE {FALSE}) :
       LET r == GetSyncLabel(factory, RegGet(ft), environ)
       IN /\ faults' = Count(ft)
          /\ factory' = r.f
          /\ IF r.err THEN
               /\ pc' = "done"
               /\ log' = Return("syncLabel", TRUE, requeueAfterError, <<>>)
             ELSE IF lacksSyncLabel(loc.bmcSecret, r.val) THEN
               /\ pc' = "done"
               /\ log' = Return("skip", FALSE, 0, <<>>)
             ELSE IF loc.bmcSecret.deleting THEN
               /\ pc' = "d_status"
               /\ UNCHANGED log
             ELSE
               /\ pc' = "addFinalizer"
               /\ UNCHANGED log
  /\ UNCHANGED <<regVars, vault, loc, passes, envUsed, cache>>

\* A variant of the finalizer step that goes on to sync when the Update is rejected.
ReconcileAddFinalizerIgnoringError ==
  /\ pc = "addFinalizer"
  /\ IF loc.bmcSecret.finalizer THEN
       /\ UNCHANGED <<secret, faults>>
     ELSE \E ft \in FaultSet :
       /\ faults' = Count(ft)
       /\ secret' = Update([loc.bmcSecret EXCEPT !.finalizer = TRUE], ft).secret
  /\ pc' = "findBMCs"
  /\ loc' = [loc EXCEPT !.bmcSecret.finalizer = TRUE]
  /\ UNCHANGED <<bmcList, syncStatus, crd, environ, vault, factory, log, passes, envUsed, cache>>

\* Reconcile, "Add finalizer if not present".
ReconcileAddFinalizer ==
  /\ pc = "addFinalizer"
  /\ IF loc.bmcSecret.finalizer THEN
       /\ pc' = "findBMCs"
       /\ UNCHANGED <<secret, loc, log, faults>>
     ELSE \E ft \in FaultSet :
       LET u == Update([loc.bmcSecret EXCEPT !.finalizer = TRUE], ft)
       IN /\ faults' = Count(ft)
          /\ secret' = u.secret
          /\ IF u.err THEN
               /\ pc' = "done"
               /\ log' = Return("addFinalizer", TRUE, 0, <<>>)
               /\ UNCHANGED loc
             ELSE
               /\ pc' = "findBMCs"
               /\ loc' = [loc EXCEPT !.bmcSecret.finalizer = TRUE]
               /\ UNCHANGED log
  /\ UNCHANGED <<bmcList, syncStatus, crd, environ, vault, factory, passes, envUsed, cache>>

\* A variant of the discovery step that reports an unreferenced record as an error.
ReconcileFindBMCsNoneIsError ==
  /\ pc = "findBMCs"
  /\ \E ft \in FaultSet :
       /\ faults' = Count(ft)
       /\ IF ft THEN
            /\ pc' = "done"
            /\ log' = Return("findBMCs", TRUE, requeueAfterError, <<"BMCDiscoveryFailed">>)
            /\ UNCHANGED loc
          ELSE IF Len(FindBMCsForSecret(bmcList, SecretName)) = 0 THEN
            /\ pc' = "done"
            /\ log' = Return("noBMCs", TRUE, requeueAfterError, <<"NoBMCReference">>)
            /\ UNCHANGED loc
          ELSE
            /\ pc' = "extract"
            /\ loc' = [loc EXCEPT !.bmcs = FindBMCsForSecret(bmcList, SecretName)]
            /\ UNCHANGED log
  /\ UNCHANGED <<regVars, vault, factory, passes, envUsed, cache>>

\* Reconcile, "Discover BMCs that reference this secret".
ReconcileFindBMCs ==
  /\ pc = "findBMCs"
  /\ \E ft \in FaultSet :
       /\ faults' = Count(ft)
       /\ IF ft THEN
            /\ pc' = "done"
            /\ log' = Return("findBMCs", TRUE, requeueAfterError, <<"BMCDiscoveryFailed">>)
            /\ UNCHANGED loc
          ELSE IF Len(FindBMCsForSecret(bmcList, SecretName)) = 0 THEN
            /\ pc' = "done"
            /\ log' = Return("noBMCs", FALSE, requeueAfterNormal, <<"NoBMCReference">>)
            /\ UNCHANGED loc
          ELSE
            /\ pc' = "extract"
            /\ loc' = [loc EXCEPT !.bmcs = FindBMCsForSecret(bmcList, SecretName)]
            /\ UNCHANGED log
  /\ UNCHANGED <<regVars, vault, factory, passes, envUsed, cache>>

\* A variant of the extraction step that treats missing credentials as a normal outcome.
ReconcileExtractLenient ==
  /\ pc = "extract"
  /\ LET c == ExtractCredentials(loc.bmcSecret)
     IN IF c.err THEN
          /\ pc' = "done"
          /\ log' = Return("extract", FALSE, requeueAfterNormal, <<"MissingCredentials">>)
          /\ UNCHANGED <<loc, faults>>
        ELSE \E ft \in FaultSet :
          /\ faults' = Count(ft)
          /\ loc' = [loc EXCEPT !.username = c.username, !.password = c.password]
          /\ pc' = IF HasMultiEngineConfig(RegGet(ft)) THEN "m_region" ELSE "s_backend"
          /\ UNCHANGED log
  /\ UNCHANGED <<regVars, vault, factory, passes, envUsed, cache>>

\* Reconcile, "Extract credentials" and "Check if multi-engine configuration exists".
ReconcileExtract ==
  /\ pc = "extract"
  /\ LET c == ExtractCredentials(loc.bmcSecret)
     IN IF c.err THEN
          /\ pc' = "done"
          /\ log' = Return("extract", TRUE, requeueAfterError, <<"MissingCredentials">>)
          /\ UNCHANGED <<loc, faults>>
        ELSE \E ft \in FaultSet :
          /\ faults' = Count(ft)
          /\ loc' = [loc EXCEPT !.username = c.username, !.password = c.password]
          /\ pc' = IF HasMultiEngineConfig(RegGet(ft)) THEN "m_region" ELSE "s_backend"
          /\ UNCHANGED log
  /\ UNCHANGED <<regVars, vault, factory, passes, envUsed, cache>>

\* reconcileSingleEngine, "Get backend".
SingleGetBackend ==
  /\ pc = "s_backend"
  /\ \E ft \in (IF IsNil(factory.backend) THEN FaultSet ELSE {FALSE}),
        fc \in (IF IsNil(factory.backend) THEN FaultSet ELSE {FALSE}) :
       LET r == GetBackend(factory, RegGet(ft), environ, ~fc)
       IN /\ ~(ft /\ fc)
          /\ faults' = Count(ft \/ fc)
          /\ factory' = r.f
          /\ IF r.err THEN
               /\ pc' = "done"
               /\ log' = Return("backend", TRUE, requeueAfterError, <<"BackendUnavailable">>)
               /\ UNCHANGED loc
             ELSE
               /\ pc' = "s_pathBuilder"
               /\ loc' = [loc EXCEPT !.backend = r.val]
               /\ UNCHANGED log
  /\ UNCHANGED <<regVars, vault, passes, envUsed, cache>>

\* reconcileSingleEngine, "Get path builder".
SingleGetPathBuilder ==
  /\ pc = "s_pathBuilder"
  /\ \E ft \in (IF IsNil(factory.config) THEN FaultSet ELSE {FALSE}) :
       LET r == GetPathBuilder(factory, RegGet(ft), environ)
       IN /\ faults' = Count(ft)
          /\ factory' = r.f
          /\ IF r.err THEN
               /\ pc' = "done"
               /\ log' = Return("pathBuilder", TRUE, requeueAfterError, <<>>)
               /\ UNCHANGED loc
             ELSE
               /\ pc' = "s_region"
               /\ loc' = [loc EXCEPT !.pathBuilder = r.val]
               /\ UNCHANGED log
  /\ UNCHANGED <<regVars, vault, passes, envUsed, cache>>

\* reconcileSingleEngine, "Get region label key".
SingleGetRegionLabelKey ==
  /\ pc = "s_region"
  /\ \E ft \in (IF IsNil(factory.config) THEN FaultSet ELSE {FALSE}) :
       LET r == GetRegionLabelKey(factory, RegGet(ft), environ)
       IN /\ faults' = Count(ft)
          /\ factory' = r.f
          /\ IF r.err THEN
               /\ pc' = "done"
               /\ log' = Return("regionKey", TRUE, requeueAfterError, <<>>)
               /\ UNCHANGED loc
             ELSE
               /\ pc' = "s_loop"
               /\ loc' = [loc EXCEPT !.regionLabelKey = r.val]
               /\ UNCHANGED log
  /\ UNCHANGED <<regVars, vault, passes, envUsed, cache>>

\* What a loop iteration leaves in the pass log for the pair it handled.
PairRecord(engine, backend, bmc, r, fk) ==
  [engine |-> engine, mount |-> backend.mount, bmc |-> bmc.Name,
   rendered |-> r.entry.ErrorMessage = <<>> \/ r.entry.ErrorMessage[2] # "render",
   path |-> r.entry.Path,
   pre |-> IF <<backend.mount, r.entry.Path>> \in DOMAIN vault
           THEN Some(vault[<<backend.mount, r.entry.Path>>]) ELSE Nil,
   password |-> loc.password, username |-> loc.username,
   fk |-> fk, writes |-> Len(r.calls), outcome |-> r.entry.SyncStatus]

\* A variant of the single-engine loop that returns the error of the first failed pair.
SingleSyncBMCAborting ==
  /\ pc = "s_loop"
  /\ loc.i <= Len(loc.bmcs)
  /\ \E fk \in FaultKinds({"exists", "read", "write"}) :
       LET r == syncPair(vault, Val(loc.backend), Val(loc.pathBuilder), "", loc.bmcs[loc.i],
                         loc.regionLabelKey, loc.username, loc.password, fk)
           failed == r.entry.SyncStatus = "Failed"
       IN /\ fk = "none" \/ r.hit
          /\ faults' = Count(fk # "none")
          /\ vault' = r.vault
          /\ loc' = [loc EXCEPT !.i = loc.i + 1,
                                !.backendPaths = Append(loc.backendPaths, r.entry),
                                !.syncSuccess = IF failed THEN loc.syncSuccess ELSE loc.syncSuccess + 1,
                                !.syncErrors = IF failed THEN loc.syncErrors + 1 ELSE loc.syncErrors]
          /\ log' = [(IF failed THEN Return("sync", TRUE, requeueAfterError, <<"SyncFailed">>) ELSE log)
                       EXCEPT !.calls = log.calls \o r.calls,
                              !.pairs = Append(log.pairs,
                                 PairRecord("", Val(loc.backend), loc.bmcs[loc.i], r, fk))]
          /\ pc' = IF failed THEN "done" ELSE pc
  /\ UNCHANGED <<regVars, factory, passes, envUsed, cache>>

\* reconcileSingleEngine, one iteration of "for _, bmc := range bmcs".
SingleSyncBMC ==
  /\ pc = "s_loop"
  /\ loc.i <= Len(loc.bmcs)
  /\ \E fk \in FaultKinds({"exists", "read", "write"}) :
       LET r == syncPair(vault, Val(loc.backend), Val(loc.pathBuilder), "", loc.bmcs[loc.i],
                         loc.regionLabelKey, loc.username, loc.password, fk)
       IN /\ fk = "none" \/ r.hit
          /\ faults' = Count(fk # "none")
          /\ vault' = r.vault
          /\ loc' = [loc EXCEPT !.i = loc.i + 1,
                                !.backendPaths = Append(loc.backendPaths, r.entry),
                                !.syncSuccess = IF r.entry.SyncStatus = "Success"
                                                THEN loc.syncSuccess + 1 ELSE loc.syncSuccess,
                                !.syncErrors = IF r.entry.SyncStatus = "Failed"
                                               THEN loc.syncErrors + 1 ELSE loc.syncErrors]
          /\ log' = [log EXCEPT !.calls = log.calls \o r.calls,
                                !.events = IF r.entry.ErrorMessage = <<"", "write">>
                                           THEN Append(log.events, "SyncFailed") ELSE log.events,
                                !.pairs = Append(log.pairs,
                                   PairRecord("", Val(loc.backend), loc.bmcs[loc.i], r, fk))]
  /\ pc' = pc
  /\ UNCHANGED <<regVars, factory, passes, envUsed, cache>>

\* The aggregate event of a sync pass.
aggregateEvent(syncErrors) == IF syncErrors > 0 THEN "PartialSync" ELSE "Synced"

\* A variant of the end of the pass that propagates a failure to persist the status.
SingleFinishFailingOnStatus ==
  /\ pc = "s_loop"
  /\ loc.i > Len(loc.bmcs)
  /\ \E fk \in FaultKinds({"get", "create", "get2", "update"}) :
       LET u == updateSyncStatus(syncStatus, loc.backendPaths, Len(loc.bmcs),
                                 loc.syncSuccess, loc.syncErrors, fk)
       IN /\ fk = "none" \/ u.hit
          /\ faults' = Count(fk # "none")
          /\ syncStatus' = u.st
          /\ log' = [(IF u.err THEN Return("synced", TRUE, requeueAfterError, <<>>)
                             ELSE Return("synced", FALSE, requeueAfterNormal,
                                         <<aggregateEvent(loc.syncErrors)>>))
                            EXCEPT !.statusErr = u.err]
  /\ pc' = "done"
  /\ UNCHANGED <<secret, bmcList, crd, environ, vault, factory, loc, passes, envUsed, cache>>

\* reconcileSingleEngine, "Update BMCSecretSyncStatus" to the return.
SingleFinish ==
  /\ pc = "s_loop"
  /\ loc.i > Len(loc.bmcs)
  /\ \E fk \in FaultKinds({"get", "create", "get2", "update"}) :
       LET u == updateSyncStatus(syncStatus, loc.backendPaths, Len(loc.bmcs),
                                 loc.syncSuccess, loc.syncErrors, fk)
       IN /\ fk = "none" \/ u.hit
          /\ faults' = Count(fk # "none")
          /\ syncStatus' = u.st
          /\ log' = [Return("synced", FALSE, requeueAfterNormal,
                            <<aggregateEvent(loc.syncErrors)>>) EXCEPT !.statusErr = u.err]
  /\ pc' = "done"
  /\ UNCHANGED <<secret, bmcList, crd, environ, vault, factory, loc, passes, envUsed, cache>>

\* reconcileMultiEngine, "Get region label key".
MultiGetRegionLabelKey ==
  /\ pc = "m_region"
  /\ \E ft \in (IF IsNil(factory.config) THEN FaultSet ELSE {FALSE}) :
       LET r == GetRegionLabelKey(factory, RegGet(ft), environ)
       IN /\ faults' = Count(ft)
          /\ factory' = r.f
          /\ IF r.err THEN
               /\ pc' = "done"
               /\ log' = Return("regionKey", TRUE, requeueAfterError, <<>>)
               /\ UNCHANGED loc
             ELSE
               /\ pc' = "m_engines"
               /\ loc' = [loc EXCEPT !.regionLabelKey = r.val]
               /\ UNCHANGED log
  /\ UNCHANGED <<regVars, vault, passes, envUsed, cache>>

\* reconcileMultiEngine, "Get matching engine backends based on BMCSecret labels".
MultiGetEngineBackends ==
  /\ pc = "m_engines"
  /\ \E fk \in (IF IsNil(factory.engineBackends) THEN FaultKinds({"lookup", "connect"})
                ELSE {"none"}) :
       LET r == GetEngineBackends(factory, loc.bmcSecret.Labels, crd, RegGet(fk = "lookup"),
                                  environ, [i \in 1..2 |-> fk # "connect"])
       IN /\ fk = "connect" => r.err
          /\ faults' = Count(fk # "none")
          /\ factory' = r.f
          /\ IF r.err THEN
               /\ pc' = "done"
               /\ log' = Return("engines", TRUE, requeueAfterError, <<"BackendUnavailable">>)
               /\ UNCHANGED loc
             ELSE IF Len(r.val) = 0 THEN
               /\ pc' = "done"
               /\ log' = Return("noEngines", FALSE, requeueAfterNormal, <<"NoMatchingEngines">>)
               /\ UNCHANGED loc
             ELSE
               /\ pc' = "m_loop"
               /\ loc' = [loc EXCEPT !.engineBackends = r.val]
               /\ UNCHANGED log
  /\ UNCHANGED <<regVars, vault, passes, envUsed, cache>>

\* A variant of the multi-engine loop that renders every path with the default template.
MultiSyncBMCDefaultTemplate ==
  /\ pc = "m_loop"
  /\ loc.e <= Len(loc.engineBackends)
  /\ \E fk \in FaultKinds({"exists", "read", "write"}) :
       LET eb == loc.engineBackends[loc.e]
           r == syncPair(vault, eb.Backend, DefaultTemplate, eb.EngineName, loc.bmcs[loc.i],
                         loc.regionLabelKey, loc.username, loc.password, fk)
       IN /\ fk = "none" \/ r.hit
          /\ faults' = Count(fk # "none")
          /\ vault' = r.vault
          /\ loc' = [loc EXCEPT !.i = IF loc.i = Len(loc.bmcs) THEN 1 ELSE loc.i + 1,
                                !.e = IF loc.i = Len(loc.bmcs) THEN loc.e + 1 ELSE loc.e,
                                !.backendPaths = Append(loc.backendPaths, r.entry),
                                !.syncSuccess = IF r.entry.SyncStatus = "Success"
                                                THEN loc.syncSuccess + 1 ELSE loc.syncSuccess,
                                !.syncErrors = IF r.entry.SyncStatus = "Failed"
                                               THEN loc.syncErrors + 1 ELSE loc.syncErrors]
          /\ log' = [log EXCEPT !.calls = log.calls \o r.calls,
                                !.events = IF r.entry.ErrorMessage = <<eb.EngineName, "write">>
                                           THEN Append(log.events, "SyncFailed") ELSE log.events,
                                !.pairs = Append(log.pairs,
                                   PairRecord(eb.EngineName, eb.Backend, loc.bmcs[loc.i], r, fk))]
  /\ pc' = pc
  /\ UNCHANGED <<regVars, factory, passes, envUsed, cache>>

\* reconcileMultiEngine, one iteration of the inner loop "for _, bmc := range bmcs"
\* of "for _, engineBackend := range engineBackends".
MultiSyncBMC ==
  /\ pc = "m_loop"
  /\ loc.e <= Len(loc.engineBackends)
  /\ \E fk \in FaultKinds({"exists", "read", "write"}) :
       LET eb == loc.engineBackends[loc.e]
           r == syncPair(vault, eb.Backend, eb.PathBuilder, eb.EngineName, loc.bmcs[loc.i],
                         loc.regionLabelKey, loc.username, loc.password, fk)
       IN /\ fk = "none" \/ r.hit
          /\ faults' = Count(fk # "none")
          /\ vault' = r.vault
          /\ loc' = [loc EXCEPT !.i = IF loc.i = Len(loc.bmcs) THEN 1 ELSE loc.i + 1,
                                !.e = IF loc.i = Len(loc.bmcs) THEN loc.e + 1 ELSE loc.e,
                                !.backendPaths = Append(loc.backendPaths, r.entry),
                                !.syncSuccess = IF r.entry.SyncStatus = "Success"
                                                THEN loc.syncSuccess + 1 ELSE loc.syncSuccess,
                                !.syncErrors = IF r.entry.SyncStatus = "Failed"
                                               THEN loc.syncErrors + 1 ELSE loc.syncErrors]
          /\ log' = [log EXCEPT !.calls = log.calls \o r.calls,
                                !.events = IF r.entry.ErrorMessage = <<eb.EngineName, "write">>
                                           THEN Append(log.events, "SyncFailed") ELSE log.events,
                                !.pairs = Append(log.pairs,
                                   PairRecord(eb.EngineName, eb.Backend, loc.bmcs[loc.i], r, fk))]
  /\ pc' = pc
  /\ UNCHANGED <<regVars, factory, passes, envUsed, cache>>

\* A variant of the end of a multi-engine pass that reports the number of
\* devices as the total.
MultiFinishCountingDevices ==
  /\ pc = "m_loop"
  /\ loc.e > Len(loc.engineBackends)
  /\ \E fk \in FaultKinds({"get", "create", "get2", "update"}) :
       LET u == updateSyncStatus(syncStatus, loc.backendPaths, Len(loc.bmcs),
                                 loc.syncSuccess, loc.syncErrors, fk)
       IN /\ fk = "none" \/ u.hit
          /\ faults' = Count(fk # "none")
          /\ syncStatus' = u.st
          /\ log' = [Return("synced", FALSE, requeueAfterNormal,
                            <<aggregateEvent(loc.syncErrors)>>) EXCEPT !.statusErr = u.err]
  /\ pc' = "done"
  /\ UNCHANGED <<secret, bmcList, crd, environ, vault, factory, loc, passes, envUsed, cache>>

\* reconcileMultiEngine, "Update BMCSecretSyncStatus" to the return.
MultiFinish ==
  /\ pc = "m_loop"
  /\ loc.e > Len(loc.engineBackends)
  /\ \E fk \in FaultKinds({"get", "create", "get2", "update"}) :
       LET u == updateSyncStatus(syncStatus, loc.backendPaths, Len(loc.backendPaths),
                                 loc.syncSuccess, loc.syncErrors, fk)
       IN /\ fk = "none" \/ u.hit
          /\ faults' = Count(fk # "none")
          /\ syncStatus' = u.st
          /\ log' = [Return("synced", FALSE, requeueAfterNormal,
                            <<aggregateEvent(loc.syncErrors)>>) EXCEPT !.statusErr = u.err]
  /\ pc' = "done"
  /\ UNCHANGED <<secret, bmcList, crd, environ, vault, factory, loc, passes, envUsed, cache>>

(***************************************************************************)
(* handleDeletion.                                                         *)
(***************************************************************************)
\* A variant of the first deletion step that leaves the status record alone.
DeletionStatusKept ==
  /\ pc = "d_status"
  /\ IF ~loc.bmcSecret.finalizer THEN
       /\ pc' = "done"
       /\ log' = Return("noFinalizer", FALSE, 0, <<>>)
     ELSE
       /\ pc' = "d_backend"
       /\ UNCHANGED log
  /\ UNCHANGED <<regVars, vault, factory, loc, passes, envUsed, faults, cache>>

\* handleDeletion, the finalizer test and "Delete corresponding BMCSecretSyncStatus".
DeletionStatus ==
  /\ pc = "d_status"
  /\ IF ~loc.bmcSecret.finalizer THEN
       /\ pc' = "done"
       /\ log' = Return("noFinalizer", FALSE, 0, <<>>)
       /\ UNCHANGED <<syncStatus, faults>>
     ELSE \E fk \in FaultKinds({"get", "delete"}) :
       /\ fk = "delete" => ~IsNil(syncStatus)
       /\ faults' = Count(fk # "none")
       /\ syncStatus' = IF fk = "none" THEN Nil ELSE syncStatus
       /\ log' = [log EXCEPT !.statusErr = fk # "none"]
       /\ pc' = "d_backend"
  /\ UNCHANGED <<secret, bmcList, crd, environ, vault, factory, loc, passes, envUsed, cache>>

\* A variant of the deletion's backend step that returns the error and keeps the finalizer.
DeletionGetBackendBlocking ==
  /\ pc = "d_backend"
  /\ \E ft \in (IF IsNil(factory.backend) THEN FaultSet ELSE {FALSE}),
        fc \in (IF IsNil(factory.backend) THEN FaultSet ELSE {FALSE}) :
       LET r == GetBackend(factory, RegGet(ft), environ, ~fc)
       IN /\ ~(ft /\ fc)
          /\ faults' = Count(ft \/ fc)
          /\ factory' = r.f
          /\ IF r.err THEN
               /\ pc' = "done"
               /\ loc' = [loc EXCEPT !.cleanup = "backend"]
               /\ log' = Return("backend", TRUE, requeueAfterError, <<"CleanupFailed">>)
             ELSE
               /\ pc' = "d_pathBuilder"
               /\ loc' = [loc EXCEPT !.backend = r.val]
               /\ UNCHANGED log
  /\ UNCHANGED <<regVars, vault, passes, envUsed, cache>>

\* handleDeletion, "Get backend".
DeletionGetBackend ==
  /\ pc = "d_backend"
  /\ \E ft \in (IF IsNil(factory.backend) THEN FaultSet ELSE {FALSE}),
        fc \in (IF IsNil(factory.backend) THEN FaultSet ELSE {FALSE}) :
       LET r == GetBackend(factory, RegGet(ft), environ, ~fc)
       IN /\ ~(ft /\ fc)
          /\ faults' = Count(ft \/ fc)
          /\ factory' = r.f
          /\ IF r.err THEN
               /\ pc' = "d_final"
               /\ loc' = [loc EXCEPT !.cleanup = "backend"]
               /\ log' = [log EXCEPT !.events = Append(log.events, "CleanupFailed")]
             ELSE
               /\ pc' = "d_pathBuilder"
               /\ loc' = [loc EXCEPT !.backend = r.val]
               /\ UNCHANGED log
  /\ UNCHANGED <<regVars, vault, passes, envUsed, cache>>

\* handleDeletion, "Get path builder".
DeletionGetPathBuilder ==
  /\ pc = "d_pathBuilder"
  /\ \E ft \in (IF IsNil(factory.config) THEN FaultSet ELSE {FALSE}) :
       LET r == GetPathBuilder(factory, RegGet(ft), environ)
       IN /\ faults' = Count(ft)
          /\ factory' = r.f
          /\ IF r.err THEN
               /\ pc' = "d_final"
               /\ loc' = [loc EXCEPT !.cleanup = "pathBuilder"]
             ELSE
               /\ pc' = "d_region"
               /\ loc' = [loc EXCEPT !.pathBuilder = r.val]
  /\ UNCHANGED <<regVars, vault, log, passes, envUsed, cache>>

\* handleDeletion, the region label key and "Extract credentials".
DeletionGetRegionLabelKey ==
  /\ pc = "d_region"
  /\ \E ft \in (IF IsNil(factory.config) THEN FaultSet ELSE {FALSE}) :
       LET r == GetRegionLabelKey(factory, RegGet(ft), environ)
           c == ExtractCredentials(loc.bmcSecret)
       IN /\ faults' = Count(ft)
          /\ factory' = r.f
          /\ IF r.err THEN
               /\ pc' = "d_final"
               /\ loc' = [loc EXCEPT !.cleanup = "regionKey"]
             ELSE IF c.err THEN
               /\ pc' = "d_final"
               /\ loc' = [loc EXCEPT !.regionLabelKey = r.val, !.cleanup = "extract"]
             ELSE
               /\ pc' = "d_find"
               /\ loc' = [loc EXCEPT !.regionLabelKey = r.val, !.username = c.username]
  /\ UNCHANGED <<regVars, vault, log, passes, envUsed, cache>>

\* handleDeletion, "Find associated BMCs".
DeletionFindBMCs ==
  /\ pc = "d_find"
  /\ \E ft \in FaultSet :
       /\ faults' = Count(ft)
       /\ IF ft THEN
            /\ pc' = "d_final"
            /\ loc' = [loc EXCEPT !.cleanup = "findBMCs"]
          ELSE
            /\ pc' = "d_loop"
            /\ loc' = [loc EXCEPT !.bmcs = FindBMCsForSecret(bmcList, SecretName),
                                  !.cleanup = "loop"]
  /\ UNCHANGED <<regVars, vault, factory, log, passes, envUsed, cache>>

\* The body of the loop "Delete secrets from backend" of handleDeletion.
deletePair(v, backend, pathBuilder, bmc, regionLabelKey, username, fault) ==
  LET region == ExtractRegionFromBMC(bmc, regionLabelKey)
      hostname == GetHostnameFromBMC(bmc)
      b == Build(pathBuilder, PathVariables(region, hostname, username))
      d == DeleteSecret(v, backend, b.path, fault)
      call == [op |-> "delete", mount |-> backend.mount, path |-> b.path, data |-> EmptyMap]
  IN IF b.err THEN [vault |-> v, calls |-> <<>>, hit |-> FALSE]
     ELSE [vault |-> d.vault, calls |-> <<call>>, hit |-> TRUE]

\* handleDeletion, one iteration of "for _, bmc := range bmcs".
DeletionDeleteBMC ==
  /\ pc = "d_loop"
  /\ loc.i <= Len(loc.bmcs)
  /\ \E ft \in FaultSet :
       LET r == deletePair(vault, Val(loc.backend), Val(loc.pathBuilder), loc.bmcs[loc.i],
                           loc.regionLabelKey, loc.username, ft)
       IN /\ ft => r.hit
          /\ faults' = Count(ft)
          /\ vault' = r.vault
          /\ loc' = [loc EXCEPT !.i = loc.i + 1]
          /\ log' = [log EXCEPT !.calls = log.calls \o r.calls]
  /\ pc' = pc
  /\ UNCHANGED <<regVars, factory, passes, envUsed, cache>>

\* handleDeletion, "Remove finalizer": reached after the delete loop and from every
\* failure branch before it.
DeletionRemoveFinalizer ==
  /\ pc = "d_final" \/ (pc = "d_loop" /\ loc.i > Len(loc.bmcs))
  /\ \E ft \in FaultSet :
       LET u == Update([loc.bmcSecret EXCEPT !.finalizer = FALSE], ft)
       IN /\ faults' = Count(ft)
          /\ secret' = u.secret
          /\ IF u.err THEN
               /\ log' = Return("removeFinalizer", TRUE, 0, <<>>)
               /\ UNCHANGED loc
             ELSE
               /\ log' = Return("deleted", FALSE, 0, <<>>)
               /\ loc' = [loc EXCEPT !.bmcSecret.finalizer = FALSE]
  /\ pc' = "done"
  /\ UNCHANGED <<bmcList, syncStatus, crd, environ, vault, factory, passes, envUsed, cache>>

(***************************************************************************)
(* The environment: the owners of the records, other writers of the store, *)
(* and the process dying in the middle of a pass.  A pass reads the record *)
(* and the device list once and works on its copies, so a change made      *)
(* during a pass acts like the same change made before or after it, except *)
(* for making an Update of the pass fail, which the failure injection of   *)
(* Update covers; the changes are therefore taken between passes.          *)
(***************************************************************************)
EnvSetLabels ==
  /\ envUsed < MaxEnv
  /\ pc \in {"idle", "done"}
  /\ secret.exists
  /\ \E l \in LabelSets \ {secret.Labels} : secret' = [secret EXCEPT !.Labels = l]
  /\ envUsed' = envUsed + 1
  /\ UNCHANGED <<bmcList, syncStatus, crd, environ, vault, factory, pc, loc, log, passes, faults, cache>>

EnvChangePassword ==
  /\ envUsed < MaxEnv
  /\ pc \in {"idle", "done"}
  /\ secret.exists
  /\ "password" \in DOMAIN secret.Data
  /\ \E pw \in Passwords \ {secret.Data["password"]} : secret' = [secret EXCEPT !.Data = FullData(pw)]
  /\ envUsed' = envUsed + 1
  /\ UNCHANGED <<bmcList, syncStatus, crd, environ, vault, factory, pc, loc, log, passes, faults, cache>>

\* A delete request: the registry sets the deletion marker, or removes the record
\* at once when it carries no finalizer.
EnvMarkDeleted ==
  /\ envUsed < MaxEnv
  /\ pc \in {"idle", "done"}
  /\ secret.exists
  /\ ~secret.deleting
  /\ secret' = IF secret.finalizer THEN [secret EXCEPT !.deleting = TRUE] ELSE Gone
  /\ envUsed' = envUsed + 1
  /\ UNCHANGED <<bmcList, syncStatus, crd, environ, vault, factory, pc, loc, log, passes, faults, cache>>

\* Another writer leaves a value without a usable password field at a stored path.
EnvTamperStore ==
  /\ envUsed < MaxEnv
  /\ pc \in {"idle", "done"}
  /\ \E k \in DOMAIN vault, d \in {[username |-> Str("admin")],
                                   [username |-> Str("admin"), password |-> NonStr]} :
       vault' = [vault EXCEPT ![k] = d]
  /\ envUsed' = envUsed + 1
  /\ UNCHANGED <<regVars, factory, pc, loc, log, passes, faults, cache>>

\* The process dies in the middle of a pass; the work queue redelivers later.
Crash ==
  /\ pc \notin {"idle", "done"}
  /\ faults < MaxFaults
  /\ faults' = faults + 1
  /\ pc' = "idle"
  /\ log' = [log EXCEPT !.at = "crash"]
  /\ UNCHANGED <<regVars, vault, factory, loc, passes, envUsed, cache>>

Next ==
  \/ ReconcileGet
  \/ ReconcileSyncLabel
  \/ ReconcileAddFinalizer
  \/ ReconcileFindBMCs
  \/ ReconcileExtract
  \/ SingleGetBackend
  \/ SingleGetPathBuilder
  \/ SingleGetRegionLabelKey
  \/ SingleSyncBMC
  \/ SingleFinish
  \/ MultiGetRegionLabelKey
  \/ MultiGetEngineBackends
  \/ MultiSyncBMC
  \/ MultiFinish
  \/ DeletionStatus
  \/ DeletionGetBackend
  \/ DeletionGetPathBuilder
  \/ DeletionGetRegionLabelKey
  \/ DeletionFindBMCs
  \/ DeletionDeleteBMC
  \/ DeletionRemoveFinalizer
  \/ EnvSetLabels
  \/ EnvChangePassword
  \/ EnvMarkDeleted
  \/ EnvTamperStore
  \/ Crash

Spec == Init /\ [][Next]_vars

(***************************************************************************)
(* The running controller: passes keep being delivered (every return, and  *)
(* every crash, is followed by a redelivery from the work queue or the     *)
(* periodic resync) and a pass in flight keeps running.  The records are   *)
(* picked up in any state an earlier run of the controller can have left   *)
(* them in: with or without the finalizer, with or without the deletion    *)
(* marker, the cache of the new process empty.                             *)
(***************************************************************************)
Redeliver == Fetch(FALSE)

LiveInit ==
  /\ \E l \in LabelSets, d \in {FullData("pw1"), NoPasswordData}, fin \in BOOLEAN, del \in BOOLEAN :
       /\ del => fin
       /\ secret = [exists |-> TRUE, Labels |-> l, Data |-> d, deleting |-> del,
                    finalizer |-> fin]
  /\ bmcList \in BmcLists
  /\ syncStatus = Nil
  /\ \E c \in CRDs, a \in BOOLEAN :
       /\ crd \in {Some(c), Nil}
       /\ environ = [VAULT_ADDR |-> a, SYNC_LABEL |-> <<>>]
       /\ (a => c = PlainCRD)
  /\ vault = EmptyMap
  /\ factory = EmptyFactory
  /\ pc = "idle"
  /\ loc = Loc0
  /\ log = Log0
  /\ passes = 0
  /\ envUsed = 0
  /\ faults = 0
  /\ cache = Cache0

LivePass ==
  \/ Redeliver
  \/ ReconcileSyncLabel
  \/ ReconcileAddFinalizer
  \/ ReconcileFindBMCs
  \/ ReconcileExtract
  \/ SingleGetBackend
  \/ SingleGetPathBuilder
  \/ SingleGetRegionLabelKey
  \/ SingleSyncBMC
  \/ SingleFinish
  \/ MultiGetRegionLabelKey
  \/ MultiGetEngineBackends
  \/ MultiSyncBMC
  \/ MultiFinish
  \/ DeletionStatus
  \/ DeletionGetBackend
  \/ DeletionGetPathBuilder
  \/ DeletionGetRegionLabelKey
  \/ DeletionFindBMCs
  \/ DeletionDeleteBMC
  \/ DeletionRemoveFinalizer

\* Failures are bounded by MaxFaults, so under this fairness every registry call
\* and every store call eventually succeeds.
LiveSpec ==
  /\ LiveInit
  /\ [][
       \/ LivePass
       \/ EnvSetLabels
       \/ EnvChangePassword
       \/ EnvMarkDeleted
       \/ EnvTamperStore
       \/ Crash
     ]_vars
  /\ WF_vars(LivePass)

(***************************************************************************)
(* The cache on its own: one reader (a reconcile pass of either            *)
(* controller) calling the factory, the configuration record changing, the *)
(* configuration reconciler invalidating, and Close.  Every factory call   *)
(* runs under the factory lock, so each is one step.  The history variable *)
(* cache records which configuration load is behind each cached field and  *)
(* behind each value handed to the reader since its pass began.            *)
(***************************************************************************)
\* The configuration records of the cache runs: no engines, two engines, and a
\* path template that does not parse.
CacheCRDs == {PlainCRD, MultiCRD, BrokenCRD}

CacheFields == {"backend", "pathBuilder", "config", "engineBackends"}

\* What is known of a configuration load when loadConfig returns: the invalidations
\* returned before it, the version of the record, where the configuration came from,
\* and whether the record existed while the lookup failed.
LoadStamp(lookupFailed, reg) ==
  [invals |-> cache.invals, invalsOk |-> cache.invalsOk, version |-> cache.version,
   source |-> IF IsNil(reg) THEN "env" ELSE "crd",
   fallback |-> lookupFailed /\ ~IsNil(crd)]

\* The history after a factory call that left the factory as f2; stored: the call
\* loaded a configuration and kept it in the cache.  A field built by the call is
\* built from the configuration the cache holds after it.
Stamped(f2, stored, stamp) ==
  LET n == IF stored THEN Len(cache.loads) + 1 ELSE cache.origin.config
  IN [cache EXCEPT
        !.loads = IF stored THEN Append(@, stamp) ELSE @,
        !.origin = [x \in CacheFields |->
                      IF IsNil(f2[x]) THEN 0
                      ELSE IF x = "config" \/ IsNil(factory[x]) THEN n
                      ELSE cache.origin[x]]]

\* A value read from cached field x is handed to the reader: the history keeps the
\* load it was built from.
Handed(c, x) == [c EXCEPT !.got = @ \cup {c.origin[x]}]

CacheGetBackend ==
  /\ \E fk \in (IF IsNil(factory.backend) THEN FaultKinds({"lookup", "connect"}) ELSE {"none"}) :
       LET reg == RegGet(fk = "lookup")
           r == GetBackend(factory, reg, environ, fk # "connect")
           c == Stamped(r.f, IsNil(factory.backend) /\ ~r.err, LoadStamp(fk = "lookup", reg))
       IN /\ fk = "connect" => ~loadConfig(reg, environ).err
          /\ faults' = Count(fk # "none")
          /\ factory' = r.f
          /\ cache' = IF r.err THEN c ELSE Handed(c, "backend")
  /\ UNCHANGED <<secret, bmcList, syncStatus, crd, environ, vault, pc, loc, log, passes, envUsed>>

CacheGetPathBuilder ==
  /\ \E ft \in (IF IsNil(factory.pathBuilder) /\ IsNil(factory.config) THEN FaultSet
                ELSE {FALSE}) :
       LET reg == RegGet(ft)
           r == GetPathBuilder(factory, reg, environ)
           c == Stamped(r.f, IsNil(factory.config) /\ ~IsNil(r.f.config), LoadStamp(ft, reg))
       IN /\ faults' = Count(ft)
          /\ factory' = r.f
          /\ cache' = IF r.err THEN c ELSE Handed(c, "pathBuilder")
  /\ UNCHANGED <<secret, bmcList, syncStatus, crd, environ, vault, pc, loc, log, passes, envUsed>>

CacheGetRegionLabelKey ==
  /\ \E ft \in (IF IsNil(factory.config) THEN FaultSet ELSE {FALSE}) :
       LET reg == RegGet(ft)
           r == GetRegionLabelKey(factory, reg, environ)
           c == Stamped(r.f, IsNil(factory.config) /\ ~IsNil(r.f.config), LoadStamp(ft, reg))
       IN /\ faults' = Count(ft)
          /\ factory' = r.f
          /\ cache' = IF r.err THEN c ELSE Handed(c, "config")
  /\ UNCHANGED <<secret, bmcList, syncStatus, crd, environ, vault, pc, loc, log, passes, envUsed>>

CacheGetSyncLabel ==
  /\ \E ft \in (IF IsNil(factory.config) THEN FaultSet ELSE {FALSE}) :
       LET reg == RegGet(ft)
           r == GetSyncLabel(factory, reg, environ)
           c == Stamped(r.f, IsNil(factory.config) /\ ~IsNil(r.f.config), LoadStamp(ft, reg))
       IN /\ faults' = Count(ft)
          /\ factory' = r.f
          /\ cache' = IF r.err THEN c ELSE Handed(c, "config")
  /\ UNCHANGED <<secret, bmcList, syncStatus, crd, environ, vault, pc, loc, log, passes, envUsed>>

CacheGetEngineBackends ==
  /\ \E labels \in LabelSets,
        fk \in (IF IsNil(factory.engineBackends) THEN FaultKinds({"lookup", "connect"})
                ELSE {"none"}) :
       LET reg == IF IsNil(factory.config) THEN RegGet(fk = "lookup") ELSE crd
           r == GetEngineBackends(factory, labels, reg, crd, environ,
                                  [i \in 1..2 |-> fk # "connect"])
           c == Stamped(r.f, IsNil(factory.config) /\ ~IsNil(r.f.config),
                        LoadStamp(fk = "lookup", reg))
       IN /\ fk = "connect" => r.err
          /\ fk = "lookup" => IsNil(factory.config)
          /\ faults' = Count(fk # "none")
          /\ factory' = r.f
          /\ cache' = IF r.err THEN c
                      ELSE Handed(c, IF IsNil(r.f.engineBackends) THEN "config"
                                     ELSE "engineBackends")
  /\ UNCHANGED <<secret, bmcList, syncStatus, crd, environ, vault, pc, loc, log, passes, envUsed>>

\* A new reconcile pass begins: nothing has been handed to it yet.
CacheReaderStart ==
  /\ cache' = [cache EXCEPT !.got = {}, !.fresh = ~cache.pending]
  /\ cache' # cache
  /\ UNCHANGED <<secret, bmcList, syncStatus, crd, environ, vault, factory, pc, loc, log,
                 passes, envUsed, faults>>

\* The configuration record is created, changed or deleted; the registry notifies
\* the configuration reconciler.
ConfigChange ==
  /\ envUsed < MaxEnv
  /\ envUsed' = envUsed + 1
  /\ \E c \in {Some(x) : x \in CacheCRDs} \cup {Nil} :
       /\ c # crd
       /\ crd' = c
  /\ cache' = [cache EXCEPT !.version = @ + 1, !.pending = TRUE, !.fresh = FALSE]
  /\ UNCHANGED <<secret, bmcList, syncStatus, environ, vault, factory, pc, loc, log,
                 passes, faults>>

\* SecretBackendConfigReconciler.Reconcile: the record is looked up; if it is absent,
\* or present, the cache is invalidated; a failed lookup or a failed invalidation is
\* returned, and the request is delivered again.
ConfigReconcile ==
  /\ cache.pending
  /\ \E fk \in FaultKinds({"lookup", "close", "engineClose"}) :
       LET r == IF fk = "lookup" THEN [f |-> factory, err |-> TRUE]
                ELSE InvalidateCache(factory, fk = "close", fk = "engineClose")
       IN /\ fk = "close" => ~IsNil(factory.backend)
          /\ fk = "engineClose" => ~IsNil(factory.engineBackends)
          /\ faults' = Count(fk # "none")
          /\ factory' = r.f
          /\ cache' = [cache EXCEPT
               !.pending = r.err,
               !.invals = IF fk = "lookup" THEN @ ELSE @ + 1,
               !.invalsOk = IF r.err THEN @ ELSE @ + 1,
               !.origin = [x \in CacheFields |-> IF IsNil(r.f[x]) THEN 0 ELSE @[x]]]
  /\ UNCHANGED <<secret, bmcList, syncStatus, crd, environ, vault, pc, loc, log, passes, envUsed>>

\* BackendFactory.Close is called; cache.closed: it has returned without error.
CacheClose ==
  /\ ~cache.closed
  /\ \E fc \in (IF IsNil(factory.backend) THEN {FALSE} ELSE FaultSet) :
       LET r == Close(factory, fc)
       IN /\ faults' = Count(fc)
          /\ factory' = r.f
          /\ cache' = [cache EXCEPT
               !.closed = ~r.err,
               !.origin = [x \in CacheFields |-> IF IsNil(r.f[x]) THEN 0 ELSE @[x]]]
  /\ UNCHANGED <<secret, bmcList, syncStatus, crd, environ, vault, pc, loc, log, passes, envUsed>>

CacheInit ==
  /\ secret = [exists |-> TRUE, Labels |-> EmptyMap, Data |-> FullData("pw1"),
               deleting |-> FALSE, finalizer |-> FALSE]
  /\ bmcList = <<Bmc3>>
  /\ syncStatus = Nil
  /\ \E c \in CacheCRDs, a \in BOOLEAN :
       /\ crd \in {Some(c), Nil}
       /\ environ = [VAULT_ADDR |-> a, SYNC_LABEL |-> <<>>]
       /\ (a => c = PlainCRD)
  /\ vault = EmptyMap
  /\ factory = EmptyFactory
  /\ pc = "idle"
  /\ loc = Loc0
  /\ log = Log0
  /\ passes = 0
  /\ envUsed = 0
  /\ faults = 0
  /\ cache = Cache0

\* The work queue delivers a configuration request again after every error, and
\* failures are bounded by MaxFaults.
CacheSpec ==
  /\ CacheInit
  /\ [][
       \/ CacheGetBackend
       \/ CacheGetPathBuilder
       \/ CacheGetRegionLabelKey
       \/ CacheGetSyncLabel
       \/ CacheGetEngineBackends
       \/ CacheReaderStart
       \/ ConfigChange
       \/ ConfigReconcile
       \/ CacheClose
     ]_vars
  /\ WF_vars(ConfigReconcile)

(***************************************************************************)
(* Label matching on its own: a pass of reconcileMultiEngine stands before *)
(* GetEngineBackends, under a configuration record with one engine whose   *)
(* syncLabel is any predicate the record's validation admits (a non-empty  *)
(* string), for a credential record with any labels.                       *)
(***************************************************************************)
MatchKeys == {"team", "critical"}
MatchValues == {"a", "b"}

\* syncLabel strings: "key", "key=value" and "key=".
MatchPredicates ==
  {S(k) : k \in MatchKeys} \cup {KV(k, v) : k \in MatchKeys, v \in MatchValues}
    \cup {<<k, "=">> : k \in MatchKeys}

\* Label maps over the keys, the empty map and empty label values included.
MatchLabelSets ==
  UNION {[{S(k) : k \in ks} -> {S(v) : v \in MatchValues} \cup {<<>>}] : ks \in SUBSET MatchKeys}

MatchInit ==
  /\ \E l \in MatchLabelSets :
       secret = [exists |-> TRUE, Labels |-> l, Data |-> FullData("pw1"), deleting |-> FALSE,
                 finalizer |-> TRUE]
  /\ bmcList = <<Bmc1, Bmc3>>
  /\ syncStatus = Nil
  /\ \E p \in MatchPredicates : crd = Some(CRD(<<>>, <<>>, <<EngineCfg("e", "e", <<>>, p)>>))
  /\ environ = [VAULT_ADDR |-> FALSE, SYNC_LABEL |-> <<>>]
  /\ vault = EmptyMap
  /\ factory = [EmptyFactory EXCEPT !.config = Some(LoadConfigFromCRD(Val(crd)).cfg)]
  /\ pc = "m_engines"
  /\ loc = [Loc0 EXCEPT !.bmcSecret = secret, !.bmcs = <<Bmc1>>, !.username = "admin",
                        !.password = "pw1", !.regionLabelKey = "region"]
  /\ log = Log0
  /\ passes = 1
  /\ envUsed = 0
  /\ faults = 0
  /\ cache = Cache0

MatchSpec == MatchInit /\ [][MultiGetEngineBackends]_vars

(***************************************************************************)
(* The store operations on their own: writes, deletes, and probes that     *)
(* call ReadSecret and SecretExists on the same store state with the same  *)
(* transport outcome.  loc.versions counts the versions the KV version 2   *)
(* engine keeps of each secret (Put adds one, up to MaxVersions;           *)
(* DeleteMetadata drops them all); loc.deleted holds the paths deleted and *)
(* not written since.                                                      *)
(***************************************************************************)
StoreBackend == Backend("secret", "")
StorePaths == { <<"bmc", "us-east-1", "host1", "admin">>,
                <<"bmc", "us-east-1", "host1", NotFoundText>> }

StoreInit ==
  /\ secret = Gone
  /\ bmcList = <<>>
  /\ syncStatus = Nil
  /\ crd = Some(PlainCRD)
  /\ environ = [VAULT_ADDR |-> FALSE, SYNC_LABEL |-> <<>>]
  /\ vault = EmptyMap
  /\ factory = EmptyFactory
  /\ pc = "store"
  /\ loc = [versions |-> EmptyMap, deleted |-> {}]
  /\ log = [op |-> "none", path |-> <<>>, fault |-> FALSE, err |-> FALSE]
  /\ passes = 0
  /\ envUsed = 0
  /\ faults = 0
  /\ cache = Cache0

StoreWrite ==
  /\ pc = "store"
  /\ \E path \in StorePaths, ft \in BOOLEAN,
        data \in {secretData("admin", "pw1"), secretData("admin", "pw2")} :
       LET w == WriteSecret(vault, StoreBackend, path, data, ft)
           key == StoreKey(StoreBackend, path)
           n == Lookup(loc.versions, key, 0)
       IN /\ vault' = w.vault
          /\ loc' = IF w.err THEN loc
                    ELSE [versions |-> MapPut(loc.versions, key,
                                              IF n < MaxVersions THEN n + 1 ELSE n),
                          deleted |-> loc.deleted \ {path}]
          /\ log' = [op |-> "write", path |-> path, fault |-> ft, err |-> w.err]
  /\ UNCHANGED <<regVars, factory, pc, passes, envUsed, faults, cache>>

StoreDelete ==
  /\ pc = "store"
  /\ \E path \in StorePaths, ft \in BOOLEAN :
       LET d == DeleteSecret(vault, StoreBackend, path, ft)
           key == StoreKey(StoreBackend, path)
       IN /\ vault' = d.vault
          /\ loc' = IF d.err THEN loc
                    ELSE [versions |-> MapDel(loc.versions, key),
                          deleted |-> loc.deleted \cup {path}]
          /\ log' = [op |-> "delete", path |-> path, fault |-> ft, err |-> d.err,
                     had |-> Lookup(loc.versions, key, 0)]
  /\ UNCHANGED <<regVars, factory, pc, passes, envUsed, faults, cache>>

StoreProbe ==
  /\ pc = "store"
  /\ \E path \in StorePaths, ft \in BOOLEAN :
       log' = [op |-> "probe", path |-> path, fault |-> ft, err |-> FALSE,
               read |-> ReadSecret(vault, StoreBackend, path, ft),
               exists |-> SecretExists(vault, StoreBackend, path, ft)]
  /\ UNCHANGED <<regVars, vault, factory, pc, loc, passes, envUsed, faults, cache>>

StoreSpec == StoreInit /\ [][StoreWrite \/ StoreDelete \/ StoreProbe]_vars

(***************************************************************************)
(* Authentication with the store.  An attempt is a pure function of the    *)
(* configured method and token and of what the outside answers: whether    *)
(* the service account token file can be read, what the login returns,     *)
(* whether the static token verifies.  It yields the error flag and the    *)
(* RecordAuth calls made on the metrics collector, in order; the duration  *)
(* passed to RecordAuth is the time since the start of the attempt.        *)
(***************************************************************************)
RecordAuth(method, failed) ==
  [method |-> method, backend |-> "vault", duration |-> "since start", failed |-> failed]

\* VaultBackend.authenticateKubernetes; login is "error", "noToken" or "ok".
authenticateKubernetes(tokenFileOK, login, hasCollector) ==
  LET rec(failed) == IF hasCollector THEN <<RecordAuth("kubernetes", failed)>> ELSE <<>>
  IN IF ~tokenFileOK THEN [err |-> TRUE, records |-> rec(TRUE)]
     ELSE IF login = "error" THEN [err |-> TRUE, records |-> rec(TRUE)]
     ELSE IF login = "noToken" THEN [err |-> TRUE, records |-> rec(TRUE)]
     ELSE [err |-> FALSE, records |-> rec(FALSE)]

\* VaultBackend.authenticateToken.
authenticateToken(token, lookupOK, hasCollector) ==
  LET rec(failed) == IF hasCollector THEN <<RecordAuth("token", failed)>> ELSE <<>>
  IN IF token = "" THEN [err |-> TRUE, records |-> rec(TRUE)]
     ELSE IF ~lookupOK THEN [err |-> TRUE, records |-> rec(TRUE)]
     ELSE [err |-> FALSE, records |-> rec(FALSE)]

\* VaultBackend.authenticate.
authenticate(in) ==
  IF in.AuthMethod = "kubernetes"
  THEN authenticateKubernetes(in.tokenFileOK, in.login, in.hasCollector)
  ELSE IF in.AuthMethod = "token"
  THEN authenticateToken(in.Token, in.lookupOK, in.hasCollector)
  ELSE [err |-> TRUE, records |-> <<>>]

AuthInputs ==
  [AuthMethod : {"kubernetes", "token", "approle", "ldap"}, Token : {"", "s.token"}, tokenFileOK : BOOLEAN,
   login : {"error", "noToken", "ok"}, lookupOK : BOOLEAN, hasCollector : BOOLEAN]

AuthInit ==
  /\ secret = Gone
  /\ bmcList = <<>>
  /\ syncStatus = Nil
  /\ crd = Some(PlainCRD)
  /\ environ = [VAULT_ADDR |-> FALSE, SYNC_LABEL |-> <<>>]
  /\ vault = EmptyMap
  /\ factory = EmptyFactory
  /\ pc = "auth"
  /\ loc \in AuthInputs
  /\ log = [err |-> FALSE, records |-> <<>>]
  /\ passes = 0
  /\ envUsed = 0
  /\ faults = 0
  /\ cache = Cache0

\* NewVaultBackend, "Authenticate".
Authenticate ==
  /\ pc = "auth"
  /\ log' = authenticate(loc)
  /\ pc' = "authDone"
  /\ UNCHANGED <<regVars, vault, factory, loc, passes, envUsed, faults, cache>>

AuthSpec == AuthInit /\ [][Authenticate]_vars

(***************************************************************************)
(* The path builder on its own: a template is parsed once and the builder  *)
(* is then asked for the path of the same variables again and again;       *)
(* log holds the results in order.                                         *)
(***************************************************************************)
PathInit ==
  /\ secret = Gone
  /\ bmcList = <<>>
  /\ syncStatus = Nil
  /\ crd = Some(PlainCRD)
  /\ environ = [VAULT_ADDR |-> FALSE, SYNC_LABEL |-> <<>>]
  /\ vault = EmptyMap
  /\ factory = EmptyFactory
  /\ pc = "path"
  /\ \E t \in {DefaultTemplate, ProdTemplate, PickyTemplate,
                <<Lit("bmc"), Field("Region"), Field("Hostname")>>},
        v \in { PathVariables(r, h, u) : r \in {"", "us-east-1", "unknown"},
                                         h \in {"", "host1"}, u \in {"", "admin"} } :
       loc = [templateStr |-> t, pb |-> NewPathBuilder(t).pb, vars |-> v]
  /\ log = <<>>
  /\ passes = 0
  /\ envUsed = 0
  /\ faults = 0
  /\ cache = Cache0

\* PathBuilder.Build on the builder and the variables at hand.
PathBuild ==
  /\ pc = "path"
  /\ Len(log) < MaxBuilds
  /\ log' = Append(log, Build(loc.pb, loc.vars))
  /\ UNCHANGED <<regVars, vault, factory, pc, loc, passes, envUsed, faults, cache>>

PathSpec == PathInit /\ [][PathBuild]_vars

(***************************************************************************)
(* The conditions of one status record under repeated upserts.  Each       *)
(* upsert builds the Synced condition of its counts, stamped with the time *)
(* of the upsert and carrying the counts in its message, and hands it to   *)
(* setCondition.  log is the conditions list; loc keeps the clock, the     *)
(* list before the last upsert and the condition that was handed in.       *)
(***************************************************************************)
CondInit ==
  /\ secret = Gone
  /\ bmcList = <<>>
  /\ syncStatus = Nil
  /\ crd = Some(PlainCRD)
  /\ environ = [VAULT_ADDR |-> FALSE, SYNC_LABEL |-> <<>>]
  /\ vault = EmptyMap
  /\ factory = EmptyFactory
  /\ pc = "cond"
  /\ loc = [clock |-> 0, prev |-> <<>>, new |-> <<>>]
  /\ log = <<>>
  /\ passes = 0
  /\ envUsed = 0
  /\ faults = 0
  /\ cache = Cache0

\* updateSyncStatus, "Update conditions" and "Update or add condition".
CondUpsert ==
  /\ pc = "cond"
  /\ loc.clock < MaxUpserts
  /\ \E successfulPaths \in 0..2, failedPaths \in 0..2 :
       LET c == syncedCondition(successfulPaths, failedPaths)
           condition == [Type |-> c.Type, Status |-> c.Status, Reason |-> c.Reason,
                         LastTransitionTime |-> loc.clock + 1,
                         Message |-> <<successfulPaths, failedPaths>>]
       IN /\ log' = setCondition(log, condition)
          /\ loc' = [clock |-> loc.clock + 1, prev |-> log, new |-> <<condition>>]
  /\ UNCHANGED <<regVars, vault, factory, pc, passes, envUsed, faults, cache>>

CondSpec == CondInit /\ [][CondUpsert]_vars

(***************************************************************************)
(* One (destination, device) pair on its own: the default store and        *)
(* template, device bmc-1, and at the pair's path whatever an earlier pass *)
(* or another writer may have left.  log is the result of syncPair.        *)
(***************************************************************************)
PairInit ==
  /\ secret = Gone
  /\ bmcList = <<Bmc1>>
  /\ syncStatus = Nil
  /\ crd = Some(PlainCRD)
  /\ environ = [VAULT_ADDR |-> FALSE, SYNC_LABEL |-> <<>>]
  /\ \E stored \in {secretData(u, p) : u \in {"admin", "root"}, p \in Passwords}
                    \cup {[f \in {"password"} |-> Str(p)] : p \in Passwords}
                    \cup {[username |-> Str("admin"), password |-> NonStr],
                          [f \in {"username"} |-> Str("admin")]},
        present \in BOOLEAN :
       vault = IF present
               THEN MapPut(EmptyMap, <<"secret", <<"bmc", "us-east-1", "host1", "admin">>>>, stored)
               ELSE EmptyMap
  /\ factory = EmptyFactory
  /\ pc = "pair"
  /\ \E pw \in Passwords, fk \in {"none", "exists", "read", "write"} :
       loc = [username |-> "admin", password |-> pw, fk |-> fk]
  /\ log = <<>>
  /\ passes = 0
  /\ envUsed = 0
  /\ faults = 0
  /\ cache = Cache0

\* reconcileSingleEngine, one turn of the loop over the devices.
PairSync ==
  /\ pc = "pair"
  /\ LET r == syncPair(vault, Backend("secret", ""), DefaultTemplate, "", Bmc1, "region",
                       loc.username, loc.password, loc.fk)
     IN /\ vault' = r.vault
        /\ log' = r
  /\ pc' = "pairDone"
  /\ UNCHANGED <<regVars, factory, loc, passes, envUsed, faults, cache>>

PairSpec == PairInit /\ [][PairSync]_vars

(***************************************************************************)
(* The factory's reader-writer lock.  Callers run the operations of the    *)
(* factory concurrently, one lock operation or one critical section at a   *)
(* step.  pc holds each caller's position: "idle", "rcheck" (holding the   *)
(* read lock, about to test the cached field), "lock" (in mu.Lock, which   *)
(* also keeps new readers out), "held" (holding the write lock, about to   *)
(* test the field again), "work" (loading and constructing, or clearing).  *)
(* loc holds the operation of each caller and the holders of the lock, log *)
(* the history: stores constructed (built), configuration loads made for a *)
(* store (loads), the construction behind the cached store (inst, 0 for    *)
(* none), InvalidateCache and Close calls finished (cleared), and for each *)
(* caller the store it was handed (got), how its last call returned (ret)  *)
(* and whether a failure was injected into that call (faulted).            *)
(***************************************************************************)
LockCallers == {"c1", "c2", "c3"}
LockGetters ==
  {"GetBackend", "GetPathBuilder", "GetRegionLabelKey", "GetSyncLabel", "GetEngineBackends"}

\* The test a getter makes under the read lock and again under the write lock.
Cached(f, op) ==
  CASE op = "GetBackend" -> ~IsNil(f.backend)
    [] op = "GetPathBuilder" -> ~IsNil(f.pathBuilder)
    [] op = "GetEngineBackends" -> ~IsNil(f.engineBackends)
    [] OTHER -> ~IsNil(f.config)

LockInit ==
  /\ secret = Gone
  /\ bmcList = <<>>
  /\ syncStatus = Nil
  /\ crd = Some(MultiCRD)
  /\ environ = [VAULT_ADDR |-> FALSE, SYNC_LABEL |-> <<>>]
  /\ vault = EmptyMap
  /\ factory = EmptyFactory
  /\ pc = [c \in LockCallers |-> "idle"]
  /\ loc = [op |-> [c \in LockCallers |-> ""], readers |-> {}, writer |-> {}]
  /\ log = [built |-> 0, loads |-> 0, inst |-> 0, cleared |-> 0,
            got |-> [c \in LockCallers |-> 0],
            ret |-> [c \in LockCallers |-> "none"],
            faulted |-> [c \in LockCallers |-> FALSE]]
  /\ passes = 0
  /\ envUsed = 0
  /\ faults = 0
  /\ cache = Cache0

\* The call: a getter's mu.RLock, which waits while a writer holds the lock or is
\* in mu.Lock; the entry of InvalidateCache and Close into mu.Lock.
LockCall(c) ==
  /\ pc[c] = "idle"
  /\ passes < MaxCalls
  /\ passes' = passes + 1
  /\ \E op \in LockGetters \cup {"InvalidateCache", "Close"} :
       /\ IF op \in LockGetters THEN
            /\ loc.writer = {}
            /\ \A w \in LockCallers : pc[w] # "lock"
            /\ loc' = [loc EXCEPT !.op[c] = op, !.readers = loc.readers \cup {c}]
            /\ pc' = [pc EXCEPT ![c] = "rcheck"]
          ELSE
            /\ loc' = [loc EXCEPT !.op[c] = op]
            /\ pc' = [pc EXCEPT ![c] = "lock"]
       /\ log' = [log EXCEPT !.got[c] = 0, !.ret[c] = "none", !.faulted[c] = FALSE]
  /\ UNCHANGED <<regVars, vault, factory, envUsed, faults, cache>>

\* The fast path: the cached value is returned under the read lock (deferred
\* RUnlock), otherwise RUnlock and on to mu.Lock.
LockFast(c) ==
  /\ pc[c] = "rcheck"
  /\ loc' = [loc EXCEPT !.readers = loc.readers \ {c}]
  /\ IF Cached(factory, loc.op[c]) THEN
       /\ pc' = [pc EXCEPT ![c] = "idle"]
       /\ log' = [log EXCEPT !.ret[c] = "ok",
                             !.got[c] = IF loc.op[c] = "GetBackend" THEN log.inst ELSE 0]
     ELSE
       /\ pc' = [pc EXCEPT ![c] = "lock"]
       /\ UNCHANGED log
  /\ UNCHANGED <<regVars, vault, factory, passes, envUsed, faults, cache>>

\* mu.Lock returns once no reader and no writer holds the lock.
LockLock(c) ==
  /\ pc[c] = "lock"
  /\ loc.readers = {}
  /\ loc.writer = {}
  /\ loc' = [loc EXCEPT !.writer = {c}]
  /\ pc' = [pc EXCEPT ![c] = "held"]
  /\ UNCHANGED <<regVars, vault, factory, log, passes, envUsed, faults, cache>>

\* A variant of the slow path that does not test the cached field again.
LockSlowNoRecheck(c) ==
  /\ pc[c] = "held"
  /\ pc' = [pc EXCEPT ![c] = "work"]
  /\ UNCHANGED <<regVars, vault, factory, loc, log, passes, envUsed, faults, cache>>

\* The slow path under the write lock: the cached field is tested again and, when
\* another caller filled it meanwhile, returned (deferred Unlock).
LockSlow(c) ==
  /\ pc[c] = "held"
  /\ IF loc.op[c] \in LockGetters /\ Cached(factory, loc.op[c]) THEN
       /\ pc' = [pc EXCEPT ![c] = "idle"]
       /\ loc' = [loc EXCEPT !.writer = loc.writer \ {c}]
       /\ log' = [log EXCEPT !.ret[c] = "ok",
                             !.got[c] = IF loc.op[c] = "GetBackend" THEN log.inst ELSE 0]
     ELSE
       /\ pc' = [pc EXCEPT ![c] = "work"]
       /\ UNCHANGED <<loc, log>>
  /\ UNCHANGED <<regVars, vault, factory, passes, envUsed, faults, cache>>

\* The body under the write lock of the call of c with the failure fk injected:
\* the new cache and whether the call fails.
LockBody(c, fk) ==
  LET op == loc.op[c]
      reg == RegGet(fk = "lookup")
  IN CASE op = "GetBackend" ->
            LET l == loadConfig(reg, environ)
                b == createBackend(l.cfg, fk # "connect")
            IN IF l.err \/ b.err THEN [f |-> factory, err |-> TRUE]
               ELSE [f |-> [factory EXCEPT !.backend = b.backend, !.config = Some(l.cfg)],
                     err |-> FALSE]
       [] op = "GetPathBuilder" -> GetPathBuilder(factory, reg, environ)
       [] op = "GetRegionLabelKey" -> GetRegionLabelKey(factory, reg, environ)
       [] op = "GetSyncLabel" -> GetSyncLabel(factory, reg, environ)
       [] op = "GetEngineBackends" ->
            GetEngineBackends(factory, EmptyMap, reg, crd, environ,
                              [i \in 1..2 |-> fk # "connect"])
       [] op = "InvalidateCache" -> InvalidateCache(factory, fk = "close", fk = "engineClose")
       [] OTHER -> Close(factory, fk = "close")

\* The failures that can strike the body of the call of c.
LockFaults(c) ==
  LET op == loc.op[c]
  IN FaultKinds((IF op \in LockGetters /\ (op = "GetBackend" \/ IsNil(factory.config))
                 THEN {"lookup"} ELSE {})
                \cup (IF op \in {"GetBackend", "GetEngineBackends"} THEN {"connect"} ELSE {})
                \cup (IF op \notin LockGetters /\ ~IsNil(factory.backend)
                      THEN {"close"} ELSE {})
                \cup (IF op = "InvalidateCache" /\ ~IsNil(factory.engineBackends)
                      THEN {"engineClose"} ELSE {}))

\* A variant of the end of the critical section that returns an error without
\* releasing the write lock.
LockFinishHoldingOnError(c) ==
  /\ pc[c] = "work"
  /\ \E fk \in LockFaults(c) :
       LET r == LockBody(c, fk)
           built == loc.op[c] = "GetBackend" /\ ~r.err
       IN /\ faults' = Count(fk # "none")
          /\ factory' = r.f
          /\ loc' = [loc EXCEPT !.writer = IF r.err THEN loc.writer ELSE loc.writer \ {c}]
          /\ log' = [log EXCEPT
               !.built = IF built THEN log.built + 1 ELSE log.built,
               !.loads = IF loc.op[c] = "GetBackend" THEN log.loads + 1 ELSE log.loads,
               !.inst = IF built THEN log.built + 1
                        ELSE IF IsNil(r.f.backend) THEN 0 ELSE log.inst,
               !.cleared = IF loc.op[c] \in LockGetters THEN log.cleared ELSE log.cleared + 1,
               !.got[c] = IF built THEN log.built + 1 ELSE 0,
               !.ret[c] = IF r.err THEN "err" ELSE "ok",
               !.faulted[c] = fk # "none"]
  /\ pc' = [pc EXCEPT ![c] = "idle"]
  /\ UNCHANGED <<regVars, vault, passes, envUsed, cache>>

\* The end of the critical section: the configuration is loaded and the store (the
\* path builder, the engine backends) constructed and cached, or the cache is
\* cleared; the deferred Unlock runs on every return.
LockFinish(c) ==
  /\ pc[c] = "work"
  /\ \E fk \in LockFaults(c) :
       LET r == LockBody(c, fk)
           built == loc.op[c] = "GetBackend" /\ ~r.err
       IN /\ faults' = Count(fk # "none")
          /\ factory' = r.f
          /\ loc' = [loc EXCEPT !.writer = loc.writer \ {c}]
          /\ log' = [log EXCEPT
               !.built = IF built THEN log.built + 1 ELSE log.built,
               !.loads = IF loc.op[c] = "GetBackend" THEN log.loads + 1 ELSE log.loads,
               !.inst = IF built THEN log.built + 1
                        ELSE IF IsNil(r.f.backend) THEN 0 ELSE log.inst,
               !.cleared = IF loc.op[c] \in LockGetters THEN log.cleared ELSE log.cleared + 1,
               !.got[c] = IF built THEN log.built + 1 ELSE 0,
               !.ret[c] = IF r.err THEN "err" ELSE "ok",
               !.faulted[c] = fk # "none"]
  /\ pc' = [pc EXCEPT ![c] = "idle"]
  /\ UNCHANGED <<regVars, vault, passes, envUsed, cache>>

LockSpec ==
  LockInit /\ [][\E c \in LockCallers : \/ LockCall(c)
                                       \/ LockFast(c)
                                       \/ LockLock(c)
                                       \/ LockSlow(c)
                                       \/ LockFinish(c)]_vars

(***************************************************************************)
(* Properties.                                                             *)
(***************************************************************************)
WritesIn(calls) == Len(SelectSeq(calls, LAMBDA c : c.op = "write"))
DeletesIn(calls) == Len(SelectSeq(calls, LAMBDA c : c.op = "delete"))

\* The value found at a path before the pair was handled holds this password as a string.
StoredPasswordIs(pre, password) ==
  /\ ~IsNil(pre)
  /\ "password" \in DOMAIN Val(pre)
  /\ Val(pre)["password"].str
  /\ Val(pre)["password"].v = password

\* C1: for every (destination, device) pair a pass has handled, whose path rendered and
\* whose existence check and read were answered by the store: if the path held a value
\* whose password field equals the record's current password, the pair is recorded
\* Success and no write was invoked for it; if the path did not exist, or the stored
\* password differs, is not a string or is missing, write was invoked exactly once.
C1_IdempotentWriteDecision ==
  \A k \in 1..Len(log.pairs) :
    LET p == log.pairs[k]
    IN (p.rendered /\ p.fk \notin {"exists", "read"}) =>
         IF StoredPasswordIs(p.pre, p.password)
         THEN p.outcome = "Success" /\ p.writes = 0
         ELSE p.writes = 1

\* One pass that left a matching path alone and rewrote a path whose stored value had
\* no usable password.
C1_Witness ==
  \E k1, k2 \in 1..Len(log.pairs) :
    /\ log.pairs[k1].fk = "none" /\ log.pairs[k2].fk = "none"
    /\ StoredPasswordIs(log.pairs[k1].pre, log.pairs[k1].password)
    /\ log.pairs[k1].writes = 0 /\ log.pairs[k1].outcome = "Success"
    /\ ~IsNil(log.pairs[k2].pre)
    /\ ~StoredPasswordIs(log.pairs[k2].pre, log.pairs[k2].password)
    /\ log.pairs[k2].writes = 1 /\ log.pairs[k2].outcome = "Success"

\* C2: no step of any execution, crashes included, issues a store write unless the
\* record in the registry carries the finalizer before and after the step, and a pass
\* that ends because persisting the finalizer failed has issued no write.
C2_FinalizerBeforeSync ==
  [][ /\ WritesIn(log'.calls) > WritesIn(log.calls) =>
           /\ secret.exists /\ secret.finalizer /\ ~secret.deleting
           /\ secret'.exists /\ secret'.finalizer
      /\ log'.at = "addFinalizer" => WritesIn(log'.calls) = 0 ]_vars

\* A first pass for a record without deletion marker has persisted the finalizer and
\* then written to the store.
C2_Witness ==
  /\ passes = 1
  /\ pc = "done" /\ log.at = "synced"
  /\ WritesIn(log.calls) > 0
  /\ secret.exists /\ secret.finalizer /\ ~secret.deleting

\* The path at which the deletion pass in flight deletes the secret of a device.
DeletionPath(bmc) ==
  Build(Val(loc.pathBuilder),
        PathVariables(ExtractRegionFromBMC(bmc, loc.regionLabelKey), GetHostnameFromBMC(bmc),
                      loc.username))

\* The referencing devices of the deletion pass in flight that yield a path.
KnownPathDevices == SelectSeq(loc.bmcs, LAMBDA bmc : ~DeletionPath(bmc).err)

\* The registry accepted the Update that clears the finalizer, so the record carries
\* it no longer, or the registry rejected that Update and the pass returned its error.
FinalizerCleared ==
  \/ log.at = "deleted" /\ ~log.err /\ (~secret.exists \/ ~secret.finalizer)
  \/ log.at = "removeFinalizer" /\ log.err

\* The destinations of the record of the deletion pass in flight: in multi-engine mode
\* the cached engines whose label predicate the record matches, else the default store
\* with the default template.
Destinations ==
  IF HasMultiEngineConfig(crd)
  THEN filterEnginesByLabels(Val(factory.engineBackends), loc.bmcSecret.Labels)
  ELSE <<[Backend |-> Val(loc.backend), PathBuilder |-> Val(loc.pathBuilder)]>>

\* A deletion pass has returned after getting to the delete loop, and the engines of a
\* multi-engine configuration are in the cache.
DeletionLoopReturned ==
  /\ pc = "done" /\ loc.cleanup = "loop"
  /\ HasMultiEngineConfig(crd) => ~IsNil(factory.engineBackends)

\* The path a destination's template renders for a device in the deletion pass in flight.
DestinationPath(d, bmc) ==
  Build(d.PathBuilder,
        PathVariables(ExtractRegionFromBMC(bmc, loc.regionLabelKey), GetHostnameFromBMC(bmc),
                      loc.username))

\* The known paths of the record: one per (destination, referencing device) pair whose
\* path renders.
KnownPaths ==
  { x \in (1..Len(Destinations)) \X (1..Len(loc.bmcs)) :
      ~DestinationPath(Destinations[x[1]], loc.bmcs[x[2]]).err }

\* C3: a deletion pass that got to the delete loop for a record with M known paths has,
\* when it returns, issued exactly M delete calls, one at each known path, whether or
\* not one of them failed, and has cleared the finalizer (unless the registry rejected
\* the Update that clears it).
C3_DeletionDeletesEveryKnownPath ==
  DeletionLoopReturned =>
    /\ DeletesIn(log.calls) = Cardinality(KnownPaths)
    /\ \A x \in KnownPaths :
         \E k \in 1..Len(log.calls) :
           /\ log.calls[k].op = "delete"
           /\ log.calls[k].mount = Destinations[x[1]].Backend.mount
           /\ log.calls[k].path = DestinationPath(Destinations[x[1]], loc.bmcs[x[2]]).path
    /\ FinalizerCleared

\* What handleDeletion does in either mode: one delete per referencing device whose
\* path renders under the default template, at the default store, in device order,
\* past delete errors, and then the finalizer is cleared.
DeletionDeletesDefaultPaths ==
  (pc = "done" /\ loc.cleanup = "loop") =>
    /\ Len(log.calls) = Len(KnownPathDevices)
    /\ \A k \in 1..Len(log.calls) :
         /\ log.calls[k].op = "delete"
         /\ log.calls[k].mount = Val(loc.backend).mount
         /\ log.calls[k].path = DeletionPath(KnownPathDevices[k]).path
    /\ FinalizerCleared

\* C4: under LiveSpec (passes keep being delivered, failures are finitely many),
\* whenever the record carries the deletion marker and the finalizer, the finalizer is
\* eventually removed, whatever the labels, the configuration and the store.
C4_DeletionNeverBlocked ==
  (secret.exists /\ secret.deleting /\ secret.finalizer)
    ~> (~secret.exists \/ ~secret.finalizer)

\* C5: a deletion pass that got to the delete loop has, when it returns, attempted a
\* delete at the path of every (destination, device) pair: at every destination's
\* mount, the path its template renders for every referencing device.
C5_DeletionCoversEveryDestination ==
  DeletionLoopReturned =>
    \A d \in 1..Len(Destinations), j \in 1..Len(loc.bmcs) :
      LET b == DestinationPath(Destinations[d], loc.bmcs[j])
      IN ~b.err =>
           \E k \in 1..Len(log.calls) :
             /\ log.calls[k].op = "delete"
             /\ log.calls[k].mount = Destinations[d].Backend.mount
             /\ log.calls[k].path = b.path

PreStepFailures == {"backend", "pathBuilder", "regionKey", "extract", "findBMCs"}

\* C6: a deletion pass in which acquiring the store, the template or the region key,
\* extracting the credentials or listing the devices failed issues no delete call and,
\* when it returns, has cleared the finalizer and returned no error (unless the
\* registry rejected the Update that clears the finalizer).
C6_PreStepFailureStillFinalizes ==
  (loc.cleanup \in PreStepFailures) =>
    /\ DeletesIn(log.calls) = 0
    /\ pc = "done" => FinalizerCleared

\* A deletion pass whose pre-step failed, that issued no delete and let the record go.
C6_Witness ==
  /\ pc = "done" /\ loc.cleanup \in PreStepFailures
  /\ log.at = "deleted" /\ ~log.err
  /\ ~secret.exists
  /\ log.calls = <<>>

SatisfiesSyncLabel(labels, spec) ==
  LET i == IndexOf(spec, "=", 1)
  IN IF i = 0 THEN spec \in DOMAIN labels
     ELSE /\ SubSeq(spec, 1, i - 1) \in DOMAIN labels
          /\ labels[SubSeq(spec, 1, i - 1)] = SubSeq(spec, i + 1, Len(spec))

\* C8: when a pass has obtained a non-empty global sync label, then if the record lacks
\* the label the pass returns there without error, having issued no store call and
\* changed neither the record, the status record nor the store; and if the record
\* carries the label the pass is not skipped.
C8_SkipWithoutSyncLabel ==
  [][ ( /\ pc = "syncLabel" /\ pc' \notin {"syncLabel", "idle"}
        /\ ~log'.err
        /\ ~IsNil(factory'.config) /\ Val(factory'.config).SyncLabel # <<>> ) =>
      IF ~SatisfiesSyncLabel(loc.bmcSecret.Labels, Val(factory'.config).SyncLabel)
      THEN /\ pc' = "done" /\ log'.at = "skip"
           /\ log'.calls = <<>> /\ log'.events = <<>>
           /\ UNCHANGED <<secret, syncStatus, vault>>
      ELSE log'.at # "skip" ]_vars

\* C9: a pass is skipped for the global sync label only if the record does not satisfy
\* the label spec under the grammar.
C9_GlobalSyncLabelGrammar ==
  (pc = "done" /\ log.at = "skip") =>
    ~SatisfiesSyncLabel(loc.bmcSecret.Labels, Val(factory.config).SyncLabel)

\* C10: a sync pass over N >= 2 pairs in which every path rendered, exactly one write
\* failed and every other pair succeeded, and whose status upsert was accepted, leaves
\* a status record with total N, successful N-1, failed 1 and the Synced condition
\* False with reason PartialSync.
C10_PartialFailureCounts ==
  ( /\ pc = "done" /\ log.at = "synced" /\ ~log.statusErr
    /\ Len(log.pairs) >= 2
    /\ \E k \in 1..Len(log.pairs) :
         /\ log.pairs[k].fk = "write" /\ log.pairs[k].outcome = "Failed"
         /\ \A j \in 1..Len(log.pairs) : j # k => log.pairs[j].outcome = "Success" ) =>
    /\ ~IsNil(syncStatus)
    /\ Val(syncStatus).TotalPaths = Len(log.pairs)
    /\ Val(syncStatus).SuccessfulPaths = Len(log.pairs) - 1
    /\ Val(syncStatus).FailedPaths = 1
    /\ Len(Val(syncStatus).BackendPaths) = Len(log.pairs)
    /\ \E c \in 1..Len(Val(syncStatus).Conditions) :
         Val(syncStatus).Conditions[c] = Condition("False", "PartialSync")
    /\ \A c \in 1..Len(Val(syncStatus).Conditions) :
         Val(syncStatus).Conditions[c].Type = "Synced" =>
           Val(syncStatus).Conditions[c].Reason = "PartialSync"

\* A pass over two engines for one device: the write to one engine failed, the other
\* succeeded, and the status record says one of two.
C10_Witness ==
  /\ pc = "done" /\ log.at = "synced" /\ ~log.statusErr
  /\ Len(log.pairs) = 2
  /\ log.pairs[1].engine # log.pairs[2].engine
  /\ \E k \in 1..2 : log.pairs[k].fk = "write" /\ log.pairs[3 - k].outcome = "Success"
  /\ ~IsNil(syncStatus)
  /\ Val(syncStatus).FailedPaths = 1 /\ Val(syncStatus).SuccessfulPaths = 1

\* The pairs of a sync pass: one per referencing device in single-engine mode, one per
\* (matching engine, referencing device) in multi-engine mode.
PairsOfPass ==
  IF Len(loc.engineBackends) = 0 THEN Len(loc.bmcs)
  ELSE Len(loc.engineBackends) * Len(loc.bmcs)

\* The pair's path did not render, or its existence check, read or write failed.
PairFailed(p) == ~p.rendered \/ p.fk \in {"exists", "read", "write"}

\* C11: a pass that has handled at least one pair and returned has attempted every
\* pair, returned no error and asked for the normal-interval retry; exactly the pairs
\* whose render, existence check, read or write failed are recorded Failed, with an
\* error text, and every other pair is recorded Success.
C11_PairFailuresIsolated ==
  (pc = "done" /\ Len(log.pairs) > 0) =>
    /\ log.at = "synced" /\ ~log.err /\ log.requeue = requeueAfterNormal
    /\ Len(log.pairs) = PairsOfPass
    /\ Len(loc.backendPaths) = Len(log.pairs)
    /\ \A k \in 1..Len(log.pairs) :
         IF PairFailed(log.pairs[k])
         THEN /\ loc.backendPaths[k].SyncStatus = "Failed"
              /\ loc.backendPaths[k].ErrorMessage # <<>>
         ELSE /\ loc.backendPaths[k].SyncStatus = "Success"
              /\ loc.backendPaths[k].ErrorMessage = <<>>

\* A pass whose first pair failed in the store and whose second pair, handled after it,
\* was written.
C11_Witness ==
  /\ pc = "done" /\ log.at = "synced" /\ ~log.err
  /\ Len(log.pairs) >= 2
  /\ log.pairs[1].fk \in {"exists", "read", "write"} /\ log.pairs[1].outcome = "Failed"
  /\ log.pairs[2].outcome = "Success" /\ log.pairs[2].writes = 1

(***************************************************************************)
(* The configuration cache (CacheSpec).                                    *)
(***************************************************************************)
\* The loads behind the fields the cache holds.
CachedLoads == {cache.origin[x] : x \in {y \in CacheFields : cache.origin[y] # 0}}

\* C12: at every moment the fields the cache holds (store, template, configuration,
\* engine bindings) all derive from one single configuration load, and so do the
\* values handed to one reconcile pass.
C12_SingleLoadSnapshot ==
  /\ Cardinality(CachedLoads) <= 1
  /\ Cardinality(cache.got) <= 1

\* The cache itself, whatever the readers do, holds fields of one load only.
C12_CachedFieldsOfOneLoad == Cardinality(CachedLoads) <= 1

InvalidateClearsAllOnSuccess ==
  [][cache'.invalsOk > cache.invalsOk => factory' = EmptyFactory]_vars

\* An invalidation has returned an error and left cached fields behind.
InvalidateFailedDirty ==
  cache.invals > cache.invalsOk /\ cache.pending /\ factory # EmptyFactory

\* The load behind cached field x was made after every invalidation counted by n
\* (n is the number of invalidations counted now, at(l) the number counted at load l).
BuiltSince(x, n, at(_)) == cache.origin[x] # 0 => at(cache.loads[cache.origin[x]]) = n

RebuiltAfterInvalidateOnSuccess ==
  \A x \in CacheFields : BuiltSince(x, cache.invalsOk, LAMBDA l : l.invalsOk)

\* After a successful invalidation the cache has been filled again.
RebuiltAfterInvalidateWitness ==
  /\ cache.invalsOk > 0
  /\ \E x \in CacheFields \ {"config"} : cache.origin[x] # 0

\* The reader's pass began after the last change of the record was invalidated, and
\* every value handed to it was built from the record as it is now.
UsesNewConfig ==
  (cache.fresh /\ cache.invalsOk > 0) =>
    \A l \in cache.got : /\ cache.loads[l].version = cache.version
                         /\ ~cache.loads[l].fallback

\* A request of the configuration reconciler that ends in an error stays queued.
FailedInvalidationRetried ==
  [][(cache.pending /\ cache'.invalsOk = cache.invalsOk /\ cache'.version = cache.version)
       => cache'.pending]_vars

\* C15: every change or deletion of the configuration record is followed by a cache
\* invalidation; every pass that starts after that invalidation is handed values
\* built from the new configuration only; a failed invalidation leaves the request
\* queued, so that it is tried again.
C15_ChangeInvalidatesAndIsUsed ==
  /\ (cache.pending ~> ~cache.pending)
  /\ []UsesNewConfig
  /\ FailedInvalidationRetried

\* The same with the passes in which a lookup of the record failed left out.
ChangeInvalidatesAndIsUsedUnlessLookupFails ==
  /\ (cache.pending ~> ~cache.pending)
  /\ [](UsesNewConfig \/ \E l \in cache.got : cache.loads[l].fallback)
  /\ FailedInvalidationRetried

\* A pass that began after an invalidation has been handed a store.
UsesNewConfigWitness ==
  /\ cache.fresh /\ cache.invalsOk > 0 /\ cache.origin.backend \in cache.got
  /\ cache.origin.backend # 0

\* C16: Close clears the whole cache like an invalidation (store, template,
\* configuration, engine bindings), and once Close has returned no cache operation
\* constructs or hands out a store again.
C16_CloseClearsAndIsTerminal == cache.closed => factory = EmptyFactory

\* The part of C16 about the store alone: none is cached once Close has returned.
NoStoreAfterClose == cache.closed => IsNil(factory.backend)

\* What Close does clear: in the step in which it returns, the default store.
CloseForgetsStore ==
  [][(~cache.closed /\ cache'.closed) =>
       /\ IsNil(factory'.backend)
       /\ factory' = [factory EXCEPT !.backend = Nil]]_vars

\* Close has returned while a store and a template were cached.
CloseWitness ==
  cache.closed /\ ~IsNil(factory.pathBuilder) /\ cache.origin.backend = 0
    /\ cache.origin.pathBuilder # 0

(***************************************************************************)
(* Routing (Spec).                                                         *)
(***************************************************************************)
\* The engine bindings of the configuration record, and those the labels of the
\* record of the pass in flight satisfy.
ConfiguredBindings ==
  IF HasMultiEngineConfig(crd)
  THEN parseSecretEngineConfig(Val(Val(crd).VaultConfig).SecretEngines,
                               [i \in 1..2 |-> TRUE], 1).ebs
  ELSE <<>>
MatchingBindings == filterEnginesByLabels(ConfiguredBindings, loc.bmcSecret.Labels)

\* A pass has returned from reconcileSingleEngine or reconcileMultiEngine after its
\* destinations were determined; it ran reconcileMultiEngine iff it got no default store.
PassRouted == pc = "done" /\ log.at \in {"synced", "noEngines"}
RanMulti == IsNil(loc.backend)

\* C17: a pass runs in multi-destination mode, over the matching engine bindings, if
\* at least one binding matches the record's labels; otherwise it syncs to the single
\* default destination.
C17_ModeFromLabels ==
  PassRouted =>
    IF Len(MatchingBindings) > 0
    THEN RanMulti /\ log.at = "synced" /\ loc.engineBackends = MatchingBindings
    ELSE ~RanMulti /\ log.at = "synced" /\ \A k \in 1..Len(log.pairs) : log.pairs[k].engine = ""

\* What decides the mode is the configuration: a pass runs reconcileMultiEngine only
\* if engines are configured, and reconcileSingleEngine only if none is configured or
\* a registry call has failed.
ModeFollowsConfiguration ==
  PassRouted =>
    /\ RanMulti => HasMultiEngineConfig(crd)
    /\ ~RanMulti => (~HasMultiEngineConfig(crd) \/ faults > 0)

\* A record matching an engine binding was synced to the default store.
SingleDespiteMatch ==
  PassRouted /\ ~RanMulti /\ Len(MatchingBindings) > 0 /\ Len(log.pairs) > 0
    /\ log.pairs[1].writes = 1

\* The outcome of a pass that routes the record nowhere: no store call at all, no
\* error, the NoMatchingEngines event, and the normal requeue interval.
RoutedNowhere ==
  /\ log.at = "noEngines" /\ ~log.err /\ log.requeue = requeueAfterNormal
  /\ log.calls = <<>> /\ log.pairs = <<>>
  /\ \E k \in 1..Len(log.events) : log.events[k] = "NoMatchingEngines"

\* C18: when engine bindings are configured and none of them matches the record's
\* labels, a pass that gets to its destinations writes nowhere and returns without
\* error, with the no-destinations event and the normal requeue interval.
C18_NoMatchRoutesNowhere ==
  (PassRouted /\ HasMultiEngineConfig(crd) /\ Len(MatchingBindings) = 0) => RoutedNowhere

\* The same for the passes that ran reconcileMultiEngine.
NoMatchRoutesNowhereInMulti ==
  (PassRouted /\ RanMulti /\ Len(MatchingBindings) = 0) => RoutedNowhere

\* A pass under a multi-engine configuration found no matching engine.
NoMatchWitness ==
  PassRouted /\ RanMulti /\ Len(MatchingBindings) = 0 /\ Len(loc.bmcs) > 0 /\ faults = 0

(***************************************************************************)
(* Label matching (MatchSpec).                                             *)
(***************************************************************************)
\* The predicate of the configured engine and the labels of the record.
ThePredicate == Val(Val(crd).VaultConfig).SecretEngines[1].SyncLabel
TheLabels == loc.bmcSecret.Labels

\* GetEngineBackends has built the engine and filtered it by the labels.
Filtered == pc # "m_engines" /\ ~IsNil(factory.engineBackends)
Matched == pc = "m_loop" /\ Len(loc.engineBackends) = 1

\* C19: a predicate "key" matches a label set iff the set has the key, whatever the
\* value; a predicate "key=value" matches iff the set maps the key to exactly that
\* value; the empty label set matches no predicate.
C19_EnginePredicateGrammar ==
  Filtered =>
    /\ Matched <=> SatisfiesSyncLabel(TheLabels, ThePredicate)
    /\ TheLabels = EmptyMap => ~Matched

\* The same for the predicates "key" and "key=value" with a value that is not empty.
EnginePredicateGrammarNonEmptyValue ==
  (Filtered /\ ThePredicate[Len(ThePredicate)] # "=") =>
    /\ Matched <=> SatisfiesSyncLabel(TheLabels, ThePredicate)
    /\ TheLabels = EmptyMap => ~Matched

\* A "key=value" predicate was tried on a label set that maps the key to another value.
EnginePredicateWitness ==
  /\ Filtered /\ ~Matched /\ ThePredicate = KV("team", "a")
  /\ TheLabels = Labels2(S("team"), S("b"), S("critical"), <<>>)

(***************************************************************************)
(* Fan-out (Spec).                                                         *)
(***************************************************************************)
\* The (engine, device) pair handled k-th in a pass over D devices: engines in
\* configuration order, and for each engine the devices in list order.
EngineOfPair(k, D) == ((k - 1) \div D) + 1
DeviceOfPair(k, D) == ((k - 1) % D) + 1

\* The path the template of engine binding eb renders for device bmc.
EnginePath(eb, bmc) ==
  Build(eb.PathBuilder,
        PathVariables(ExtractRegionFromBMC(bmc, loc.regionLabelKey), GetHostnameFromBMC(bmc),
                      loc.username))

\* C20: a multi-engine pass that gets through its loop, for a record matching E
\* engine bindings and referenced by D devices, handles exactly E x D pairs, the
\* k-th at the store and with the template of its own engine, and the status
\* record it persists has one entry per pair and total E x D.
C20_FanOutEveryPair ==
  (PassRouted /\ RanMulti /\ log.at = "synced") =>
    LET E == Len(MatchingBindings)
        bmcs == FindBMCsForSecret(bmcList, SecretName)
        D == Len(bmcs)
    IN /\ Len(log.pairs) = E * D
       /\ \A k \in 1..Len(log.pairs) :
            LET eb == MatchingBindings[EngineOfPair(k, D)]
                bmc == bmcs[DeviceOfPair(k, D)]
                p == log.pairs[k]
            IN /\ p.engine = eb.EngineName /\ p.bmc = bmc.Name
               /\ p.mount = eb.Backend.mount
               /\ p.rendered = ~EnginePath(eb, bmc).err
               /\ p.rendered => p.path = EnginePath(eb, bmc).path
               /\ (p.rendered /\ p.outcome = "Success") =>
                    StoreKey(eb.Backend, p.path) \in DOMAIN vault
       /\ ~log.statusErr =>
            /\ ~IsNil(syncStatus)
            /\ Val(syncStatus).TotalPaths = E * D
            /\ Len(Val(syncStatus).BackendPaths) = E * D

\* A record matching two engines with different templates, referenced by two
\* devices, was written at all four pairs.
C20_Witness ==
  /\ PassRouted /\ RanMulti /\ log.at = "synced" /\ ~log.statusErr
  /\ Len(MatchingBindings) = 2 /\ Len(loc.bmcs) = 2 /\ Len(log.pairs) = 4
  /\ \A k \in 1..4 : log.pairs[k].writes = 1 /\ log.pairs[k].outcome = "Success"
  /\ log.pairs[1].path # log.pairs[3].path

(***************************************************************************)
(* Outcomes of a sync pass (Spec).                                         *)
(***************************************************************************)
\* The devices that reference the record.
Referencing == FindBMCsForSecret(bmcList, SecretName)

\* The first pass of a run has returned from reconcileSingleEngine after its loop,
\* nothing outside the pass has happened, and no path failed to render and no store
\* call failed.
FirstSinglePassClean ==
  /\ PassRouted /\ ~RanMulti /\ log.at = "synced"
  /\ passes = 1 /\ envUsed = 0
  /\ \A k \in 1..Len(log.pairs) : log.pairs[k].rendered /\ log.pairs[k].fk = "none"

\* C21: in single-destination mode a record referenced by two devices, synced into an
\* empty store, is written exactly twice in the pass, at two distinct paths, one per
\* device, each write carrying the record's username and password.
C21_TwoDevicesTwoWrites ==
  (FirstSinglePassClean /\ Len(Referencing) = 2) =>
    /\ Len(log.calls) = 2
    /\ log.calls[1].path # log.calls[2].path
    /\ \A k \in 1..2 :
         LET c == log.calls[k]
         IN /\ c.op = "write"
            /\ c.mount = Val(loc.backend).mount
            /\ c.path = Build(Val(loc.pathBuilder),
                              PathVariables(ExtractRegionFromBMC(Referencing[k], loc.regionLabelKey),
                                            GetHostnameFromBMC(Referencing[k]),
                                            loc.bmcSecret.Data["username"])).path
            /\ c.data = [f \in {"username", "password"} |-> Str(loc.bmcSecret.Data[f])]
            /\ StoreKey(Val(loc.backend), c.path) \in DOMAIN vault
            /\ vault[StoreKey(Val(loc.backend), c.path)] = c.data

\* Two devices, two writes, into an empty store.
C21_Witness ==
  /\ FirstSinglePassClean /\ Len(Referencing) = 2
  /\ Len(log.calls) = 2 /\ log.calls[1].path # log.calls[2].path
  /\ Cardinality(DOMAIN vault) = 2

\* The pairs of the pass with the given outcome, counted from what happened to each.
PairsWith(outcome) ==
  Cardinality({k \in 1..Len(log.pairs) : log.pairs[k].outcome = outcome})

\* A sync pass has returned after its loop and its status upsert was accepted.
UpsertDone == PassRouted /\ log.at = "synced" /\ ~log.statusErr

\* The conditions of type Synced in the status record.
SyncedConditions ==
  SelectSeq(Val(syncStatus).Conditions, LAMBDA c : c.Type = "Synced")

\* C22: after an upsert the Synced condition of the status record follows from the
\* counts of that pass: True/AllPathsSynced when failed = 0, False/PartialSync when
\* success > 0 and failed > 0, False/SyncFailed when success = 0 and failed > 0.
C22_ConditionFromCounts ==
  UpsertDone =>
    /\ ~IsNil(syncStatus)
    /\ Len(SyncedConditions) > 0
    /\ \A i \in 1..Len(SyncedConditions) :
         LET c == SyncedConditions[i]
             ok == PairsWith("Success")
             failed == PairsWith("Failed")
         IN /\ failed = 0 => (c.Status = "True" /\ c.Reason = "AllPathsSynced")
            /\ (ok > 0 /\ failed > 0) => (c.Status = "False" /\ c.Reason = "PartialSync")
            /\ (ok = 0 /\ failed > 0) => (c.Status = "False" /\ c.Reason = "SyncFailed")

\* A pass in which every pair failed replaced the condition an earlier pass had left.
C22_Witness ==
  /\ UpsertDone /\ log.hadStatus
  /\ PairsWith("Success") = 0 /\ PairsWith("Failed") > 0
  /\ SyncedConditions = <<Condition("False", "SyncFailed")>>

\* The aggregate event of a pass that got through its loop: the last event it emitted.
AggregateEvent == log.events[Len(log.events)]

\* C23: the aggregate event tells total failure from partial degradation: Synced is
\* emitted only when failed = 0, PartialSync only when success > 0 and failed > 0,
\* and a pass with success = 0 and failed > 0 emits neither of them.
C23_AggregateEventDistinguishes ==
  (PassRouted /\ log.at = "synced") =>
    /\ AggregateEvent = "Synced" => PairsWith("Failed") = 0
    /\ AggregateEvent = "PartialSync" => (PairsWith("Success") > 0 /\ PairsWith("Failed") > 0)
    /\ (PairsWith("Success") = 0 /\ PairsWith("Failed") > 0) =>
         AggregateEvent \notin {"Synced", "PartialSync"}

\* What the aggregate event does tell: whether any pair failed.
AggregateEventTellsFailure ==
  (PassRouted /\ log.at = "synced") =>
    /\ AggregateEvent \in {"Synced", "PartialSync"}
    /\ AggregateEvent = "Synced" <=> PairsWith("Failed") = 0

\* A pass in which every pair failed has emitted its aggregate event.
TotalFailureWitness ==
  /\ PassRouted /\ log.at = "synced"
  /\ PairsWith("Success") = 0 /\ PairsWith("Failed") > 0 /\ AggregateEvent = "PartialSync"

\* Where a sync pass ends on a failed device discovery, a failed credential
\* extraction, or a failed acquisition of the store, the template, the region key or
\* the engine stores.
FatalPoints == {"findBMCs", "extract", "backend", "pathBuilder", "regionKey", "engines"}

\* C24: a pass that hits a discovery, extraction or backend-acquisition error issues
\* no store call, returns the error and asks for the short retry interval; and no
\* pass gets to its destinations without credentials or without the store.
C24_FatalErrorsRetrySooner ==
  /\ (pc = "done" /\ log.at \in FatalPoints) =>
       /\ log.err /\ log.requeue = requeueAfterError
       /\ log.calls = <<>> /\ log.pairs = <<>>
  /\ (PassRouted /\ log.at = "synced") =>
       /\ ~ExtractCredentials(loc.bmcSecret).err
       /\ Len(loc.bmcs) > 0
       /\ IF RanMulti THEN Len(loc.engineBackends) > 0
          ELSE ~IsNil(loc.backend) /\ ~IsNil(loc.pathBuilder)

\* A pass for a record without a password, referenced by a device, has ended.
C24_Witness ==
  /\ pc = "done" /\ log.at = "extract" /\ Len(loc.bmcs) > 0
  /\ "password" \notin DOMAIN loc.bmcSecret.Data
  /\ log.err /\ log.requeue = requeueAfterError

\* The pass failed to acquire the store although the registry lookup and the
\* connection did not fail: the configured backend kind is one createBackend rejects.
UnsupportedKindFailure ==
  /\ pc = "done" /\ log.at = "backend" /\ ~secret.deleting
  /\ faults = 0
  /\ ~IsNil(crd) /\ Val(crd).Backend # "vault"

\* C25: a pass that fails because the configured backend kind is unsupported never
\* asks for the short retry interval.
C25_UnsupportedNotRetriedSooner ==
  UnsupportedKindFailure => log.requeue # requeueAfterError

\* What the code does instead: the unsupported kind is handled like every other
\* acquisition failure, with the error returned and the short interval requested.
UnsupportedKindRetriedSooner ==
  UnsupportedKindFailure =>
    /\ log.err /\ log.requeue = requeueAfterError
    /\ log.events = <<"BackendUnavailable">> /\ log.calls = <<>>

\* The pairs of the pass whose write was issued and reported as done.
WrittenPairs == {k \in 1..Len(log.pairs) : log.pairs[k].writes = 1 /\ log.pairs[k].outcome = "Success"}

\* A pass for a record that is not being deleted ended with a failure to create,
\* re-read or update the status record.
StatusPersistenceFailed == pc = "done" /\ log.statusErr /\ ~loc.bmcSecret.deleting

\* C26: a failure to persist the status record does not fail the pass: the step that
\* ends such a pass returns no error, emits the aggregate event, asks for the normal
\* interval, and leaves in the store what the pass wrote.
C26_StatusErrorNotPropagated ==
  [][ (pc # "done" /\ StatusPersistenceFailed') =>
        /\ log'.at = "synced" /\ ~log'.err
        /\ log'.requeue = requeueAfterNormal
        /\ Len(log'.events) > 0
        /\ log'.events[Len(log'.events)] = aggregateEvent(loc.syncErrors)
        /\ vault' = vault
        /\ \A k \in WrittenPairs' :
             LET p == log'.pairs[k]
             IN /\ <<p.mount, p.path>> \in DOMAIN vault'
                /\ vault'[<<p.mount, p.path>>] = secretData(p.username, p.password) ]_vars

\* A pass wrote to the store and then failed to persist its status.
C26_Witness ==
  /\ StatusPersistenceFailed /\ WrittenPairs # {}
  /\ ~log.err /\ log.requeue = requeueAfterNormal

\* Where a pass ends after a discovery that found referencing devices.
AfterDiscovery == {"extract", "backend", "pathBuilder", "regionKey", "engines", "noEngines", "synced"}

\* C27: when no device references the record, no pass goes beyond the discovery, and
\* the pass that completes the discovery issues no store call, emits NoBMCReference,
\* returns no error and asks for the normal interval.
C27_NoReferenceNoWrite ==
  (pc = "done" /\ Len(Referencing) = 0) =>
    /\ log.at \notin AfterDiscovery
    /\ log.at = "noBMCs" =>
         /\ ~log.err /\ log.requeue = requeueAfterNormal
         /\ log.events = <<"NoBMCReference">>
         /\ log.calls = <<>> /\ log.pairs = <<>>

\* A pass for an existing, unreferenced record has completed the discovery.
C27_Witness ==
  /\ pc = "done" /\ log.at = "noBMCs" /\ Len(Referencing) = 0
  /\ secret.exists /\ ~secret.deleting
  /\ log.events = <<"NoBMCReference">>

\* The configuration a pass loads when the registry lookup succeeds, and whether
\* a store and the templates can be built from it.
EffectiveConfig == loadConfig(crd, environ)
ConfigUsable ==
  /\ ~EffectiveConfig.err
  /\ ~createBackend(EffectiveConfig.cfg, TRUE).err
  /\ ~NewPathBuilder(EffectiveConfig.cfg.PathTemplate).err

\* The destinations of the record as it is now: the matching engine bindings under
\* a multi-engine configuration, the default store otherwise.
CurrentDestinations ==
  IF HasMultiEngineConfig(crd)
  THEN filterEnginesByLabels(ConfiguredBindings, secret.Labels)
  ELSE << [Backend |-> Val(createBackend(EffectiveConfig.cfg, TRUE).backend),
           PathBuilder |-> NewPathBuilder(EffectiveConfig.cfg.PathTemplate).pb] >>

CurrentPath(d, bmc) ==
  Build(d.PathBuilder,
        PathVariables(ExtractRegionFromBMC(bmc, EffectiveConfig.cfg.RegionLabelKey),
                      GetHostnameFromBMC(bmc), secret.Data["username"]))

\* There is something to converge to: a live record with credentials, referenced by
\* a device, a usable configuration with a destination, and a path for every pair.
Syncable ==
  /\ secret.exists /\ ~secret.deleting
  /\ ~ExtractCredentials(secret).err
  /\ ConfigUsable
  /\ Len(Referencing) > 0 /\ Len(CurrentDestinations) > 0
  /\ \A i \in 1..Len(CurrentDestinations), j \in 1..Len(Referencing) :
       ~CurrentPath(CurrentDestinations[i], Referencing[j]).err

\* Every pair's path holds the record's current credentials, the status record
\* reports no failed path, and the pass at hand has issued no store call.
Converged ==
  /\ \A i \in 1..Len(CurrentDestinations), j \in 1..Len(Referencing) :
       LET key == StoreKey(CurrentDestinations[i].Backend,
                           CurrentPath(CurrentDestinations[i], Referencing[j]).path)
       IN /\ key \in DOMAIN vault
          /\ vault[key] = secretData(secret.Data["username"], secret.Data["password"])
  /\ ~IsNil(syncStatus) /\ Val(syncStatus).FailedPaths = 0
  /\ log.calls = <<>>

\* The record is selected by the global sync label under the grammar "key" or
\* "key=value", or no global sync label is configured.
SelectedByGrammar ==
  EffectiveConfig.cfg.SyncLabel = <<>>
    \/ SatisfiesSyncLabel(secret.Labels, EffectiveConfig.cfg.SyncLabel)

\* C28: under LiveSpec (passes keep being delivered; changes and failures are finitely
\* many) every syncable record selected for syncing is eventually, and from then on,
\* converged: all paths hold the current password, failed = 0, no further writes.
C28_EventualConvergence ==
  <>[]((Syncable /\ SelectedByGrammar) => Converged)

\* The same for the records the sync-label test of Reconcile lets through.
ConvergesWhenNotSkipped ==
  <>[]((Syncable /\ ~lacksSyncLabel(secret, EffectiveConfig.cfg.SyncLabel)) => Converged)

\* A converged state in which a later pass found nothing to write.
ConvergedWitness ==
  /\ Syncable /\ Converged /\ pc = "done" /\ log.at = "synced"
  /\ Len(log.pairs) > 0

\* What a probe found: the secret is stored, or the read failed for another reason
\* than its absence.
ProbeFound == log.read.err = "none"
ProbeAbsent == log.read.err = "notfound"

\* C29: on the same store state, SecretExists returns false without error exactly when
\* ReadSecret fails because the secret is absent, true exactly when ReadSecret returns
\* data, and an error for every other read failure.
C29_ExistsAgreesWithRead ==
  (pc = "store" /\ log.op = "probe") =>
    /\ (~log.exists.err /\ ~log.exists.exists) <=> ProbeAbsent
    /\ (~log.exists.err /\ log.exists.exists) <=> ProbeFound
    /\ (~ProbeAbsent /\ ~ProbeFound) => log.exists.err

\* The same for the paths in which the text NotFoundText does not occur.
ExistsAgreesWithReadOffText ==
  (pc = "store" /\ log.op = "probe" /\ \A i \in 1..Len(log.path) : log.path[i] # NotFoundText) =>
    /\ (~log.exists.err /\ ~log.exists.exists) <=> ProbeAbsent
    /\ (~log.exists.err /\ log.exists.exists) <=> ProbeFound
    /\ (~ProbeAbsent /\ ~ProbeFound) => log.exists.err

\* A read of a stored secret failed in transport and SecretExists reported "absent".
FailedReadTakenForAbsent ==
  /\ pc = "store" /\ log.op = "probe" /\ log.fault
  /\ StoreKey(StoreBackend, log.path) \in DOMAIN vault
  /\ ~log.exists.err /\ ~log.exists.exists

\* C30: a path deleted with success and not written since has no version and no
\* metadata left in the store, and SecretExists on it reports false.
C30_DeleteRemovesAll ==
  pc = "store" =>
    \A path \in loc.deleted :
      /\ StoreKey(StoreBackend, path) \notin DOMAIN loc.versions
      /\ StoreKey(StoreBackend, path) \notin DOMAIN vault
      /\ SecretExists(vault, StoreBackend, path, FALSE) = [err |-> FALSE, exists |-> FALSE]

\* A secret with more than one version was deleted with success.
C30_Witness ==
  /\ pc = "store" /\ log.op = "delete" /\ ~log.err /\ log.had = MaxVersions
  /\ log.path \in loc.deleted
  /\ ~SecretExists(vault, StoreBackend, log.path, FALSE).exists

\* What an attempt reports when a collector is injected: one call, with the method,
\* the backend kind, the duration and the outcome of the attempt.
ReportedOnce ==
  /\ Len(log.records) = 1
  /\ log.records[1] = RecordAuth(loc.AuthMethod, log.err)

\* C31: an authentication attempt with a collector injected is reported exactly once,
\* with its method, backend kind, duration and outcome; without a collector nothing is
\* reported and the attempt ends as it does with one.
C31_AuthAlwaysReported ==
  pc = "authDone" =>
    /\ loc.hasCollector => ReportedOnce
    /\ ~loc.hasCollector =>
         /\ log.records = <<>>
         /\ log.err = authenticate([loc EXCEPT !.hasCollector = TRUE]).err

\* The same for the two methods that are implemented.
ImplementedAuthReported ==
  (pc = "authDone" /\ loc.AuthMethod \in {"kubernetes", "token"}) =>
    /\ loc.hasCollector => ReportedOnce
    /\ ~loc.hasCollector =>
         /\ log.records = <<>>
         /\ log.err = authenticate([loc EXCEPT !.hasCollector = TRUE]).err

\* An attempt with an unsupported method failed and the injected collector heard nothing.
UnsupportedAuthUnreported ==
  /\ pc = "authDone" /\ loc.AuthMethod \notin {"kubernetes", "token"}
  /\ loc.hasCollector /\ log.err /\ log.records = <<>>

\* The devices of the pass at hand that carry no label under the region label key.
Unlabelled(bmc) == loc.regionLabelKey \notin DOMAIN bmc.Labels
DeviceNamed(name) == CHOOSE j \in 1..Len(bmcList) : bmcList[j].Name = name

\* The path the default template of the pass renders for a device with region "unknown".
UnknownRegionPath(bmc) ==
  Build(Val(loc.pathBuilder), PathVariables("unknown", GetHostnameFromBMC(bmc), loc.username))

\* C32: a device without the region label gets the region "unknown": every entry a
\* sync pass records for it says so and the pass to the default store handles it at the
\* path rendered with "unknown"; a deletion pass deletes at that same path, which is
\* gone from the store after the delete.
C32_UnknownRegionInSyncAndDeletion ==
  /\ \A k \in 1..Len(loc.backendPaths) :
       LET e == loc.backendPaths[k]
       IN Unlabelled(bmcList[DeviceNamed(e.BMCName)]) =>
            e.Region = "unknown"
  /\ \A k \in 1..Len(log.pairs) :
       LET p == log.pairs[k]
           bmc == bmcList[DeviceNamed(p.bmc)]
       IN (~IsNil(loc.backend) /\ ~IsNil(loc.pathBuilder) /\ Unlabelled(bmc) /\ p.rendered) =>
            p.path = UnknownRegionPath(bmc).path
  /\ (pc = "done" /\ loc.cleanup = "loop") =>
       \A j \in 1..Len(loc.bmcs) :
         (Unlabelled(loc.bmcs[j]) /\ ~UnknownRegionPath(loc.bmcs[j]).err) =>
           /\ \E k \in 1..Len(log.calls) :
                /\ log.calls[k].op = "delete"
                /\ log.calls[k].path = UnknownRegionPath(loc.bmcs[j]).path
           /\ faults = 0 =>
                StoreKey(Val(loc.backend), UnknownRegionPath(loc.bmcs[j]).path) \notin DOMAIN vault

\* A deletion pass deleted, for the device without labels, the path with "unknown".
C32_Witness ==
  /\ pc = "done" /\ loc.cleanup = "loop" /\ faults = 0
  /\ \E j \in 1..Len(loc.bmcs) : Unlabelled(loc.bmcs[j])
  /\ \E k \in 1..Len(log.calls) : log.calls[k].op = "delete" /\ log.calls[k].path[2] = "unknown"

\* The template consists of literals and plain substitutions only.
PlainTemplate(t) == \A i \in 1..Len(t) : t[i].t \in {"lit", "field"}

CachedFromEnv == ~IsNil(factory.config) /\ Val(factory.config).source = "env"

\* C35: the cache holds a configuration built from the environment variables only when
\* the registry has no configuration record; a lookup that fails for another reason
\* does not switch the cache to the environment.
C35_EnvFallbackOnlyOnNotFound ==
  CachedFromEnv => IsNil(crd)

\* What the code guarantees: an environment configuration is cached only after a
\* lookup that did not return the record, whatever the reason.
EnvFallbackOnAnyLookupError ==
  CachedFromEnv => (IsNil(crd) \/ faults > 0)

\* The record exists, a lookup of it failed, and the cache holds the environment's
\* configuration.
EnvFallbackDespiteRecord ==
  CachedFromEnv /\ ~IsNil(crd) /\ faults > 0

\* C36: an upsert replaces the stored condition of the same type only when status or
\* reason differ; when both are equal the stored condition stays as it was, with its
\* last-transition time; and there is never more than one condition of type Synced.
C36_UpsertOnlyOnChange ==
  (pc = "cond" /\ loc.clock > 0) =>
    LET new == loc.new[1]
    IN /\ Len(SelectSeq(log, LAMBDA c : c.Type = "Synced")) = 1
       /\ IF loc.prev = <<>> THEN log = <<new>>
          ELSE IF loc.prev[1].Status # new.Status \/ loc.prev[1].Reason # new.Reason
          THEN log = <<new>>
          ELSE log = loc.prev

\* An upsert with the status and reason already stored, at a later time and with
\* other counts, left the stored condition and its time as they were.
C36_Witness ==
  /\ pc = "cond" /\ loc.clock > 1 /\ loc.prev # <<>>
  /\ loc.prev[1].Status = loc.new[1].Status /\ loc.prev[1].Reason = loc.new[1].Reason
  /\ loc.prev[1].Message # loc.new[1].Message
  /\ log = loc.prev /\ log[1].LastTransitionTime < loc.new[1].LastTransitionTime

\* The pair was recorded as Success, and what the store holds at its path.
PairSucceeded == pc = "pairDone" /\ log.entry.SyncStatus = "Success"
PairKey == <<"secret", log.entry.Path>>

\* C37, as stated: when a pair is recorded as Success, the store holds at its path the
\* record's current username and current password.
C37_SuccessMeansStored ==
  PairSucceeded =>
    /\ PairKey \in DOMAIN vault
    /\ vault[PairKey] = secretData(loc.username, loc.password)

\* C37, as the code has it: when a pair is recorded as Success, the store holds at its
\* path the record's current password, and if the pair was written it holds exactly the username and the password.
SuccessMeansPasswordStored ==
  PairSucceeded =>
    /\ PairKey \in DOMAIN vault
    /\ "password" \in DOMAIN vault[PairKey]
    /\ vault[PairKey]["password"] = Str(loc.password)
    /\ Len(log.calls) = 1 => vault[PairKey] = secretData(loc.username, loc.password)

\* A pair whose path held another password was written and recorded as Success.
PairWrittenWitness ==
  /\ PairSucceeded /\ Len(log.calls) = 1
  /\ vault[PairKey] = secretData(loc.username, loc.password)


\* The entries of a status record whose outcome is Failed.
FailedEntries(st) == {i \in DOMAIN st.BackendPaths : st.BackendPaths[i].SyncStatus = "Failed"}

\* C38: every persisted status record has total = successful + failed = number
\* of entries, every entry is Success or Failed, and the Failed entries are
\* exactly as many as the record's failed count.
C38_StatusCountsConsistent ==
  ~IsNil(syncStatus) =>
    LET st == Val(syncStatus)
    IN /\ st.TotalPaths = st.SuccessfulPaths + st.FailedPaths
       /\ st.TotalPaths = Len(st.BackendPaths)
       /\ \A i \in DOMAIN st.BackendPaths :
            st.BackendPaths[i].SyncStatus \in {"Success", "Failed"}
       /\ Cardinality(FailedEntries(Val(syncStatus))) = st.FailedPaths

\* A persisted record of a pass that had both a success and a failure.
C38_Witness ==
  /\ ~IsNil(syncStatus)
  /\ Val(syncStatus).SuccessfulPaths >= 1
  /\ Val(syncStatus).FailedPaths >= 1
  /\ Len(Val(syncStatus).BackendPaths) >= 2


\* A step that issues a delete call on a secret store or deletes the status record.
DeleteIssued ==
  \/ \E i \in (Len(log.calls) + 1)..Len(log'.calls) : log'.calls[i].op = "delete"
  \/ ~IsNil(syncStatus) /\ IsNil(syncStatus')

\* C39: a delete call on a secret store, or a deletion of the status record, is
\* issued only by a pass that read the credential record with the deletion marker
\* set and the finalizer present.
C39_DeletesFinalizerGated ==
  [][DeleteIssued => loc.bmcSecret.deleting /\ loc.bmcSecret.finalizer]_vars

\* A finished deletion pass that deleted the status record and issued a store delete.
C39_Witness ==
  /\ pc = "done"
  /\ loc.bmcSecret.deleting /\ loc.bmcSecret.finalizer
  /\ log.hadStatus /\ IsNil(syncStatus)
  /\ \E i \in DOMAIN log.calls : log.calls[i].op = "delete"


\* The callers inside a critical section of the write lock.
InCriticalSection == {c \in LockCallers : pc[c] \in {"held", "work"}}

\* The callers whose GetBackend call returned a store.
HandedStore == {c \in LockCallers : pc[c] = "idle" /\ loc.op[c] = "GetBackend" /\ log.ret[c] = "ok"}

\* C34: constructions, and constructions and invalidations, never overlap; and as
\* long as the cache was never cleared, concurrent GetBackend calls construct one
\* store (with one configuration load when nothing fails) and every caller is
\* handed that store.
C34_OneConstruction ==
  /\ Cardinality(InCriticalSection) <= 1
  /\ log.cleared = 0 =>
       /\ log.built <= 1
       /\ faults = 0 => log.loads <= 1
       /\ \A c \in HandedStore : log.built = 1 /\ log.got[c] = 1

\* Every caller asked for the store of a cache that was never cleared, and all of
\* them were handed the one store constructed.
C34_Witness ==
  /\ log.cleared = 0
  /\ HandedStore = LockCallers
  /\ log.built = 1
  /\ \A c \in LockCallers : log.got[c] = 1

\* A step of a caller that is inside an operation.
LockStep == \E c \in LockCallers : LockFast(c) \/ LockLock(c) \/ LockSlow(c) \/ LockFinish(c)

\* C40: the lock is held only by callers inside an operation (so every return,
\* error returns included, has released it), callers inside an operation can
\* always take a step, and a call fails only by a failure of its own, never by
\* what an earlier failed call left behind.
C40_LockAlwaysReleased ==
  /\ loc.readers = {c \in LockCallers : pc[c] = "rcheck"}
  /\ loc.writer = InCriticalSection
  /\ (\E c \in LockCallers : pc[c] # "idle") => ENABLED LockStep
  /\ \A c \in LockCallers : pc[c] = "idle" /\ log.ret[c] = "err" => log.faulted[c]

\* A construction failed, and a later GetBackend call on the same cache, never
\* cleared, was handed a store; nobody holds the lock.
C40_Witness ==
  /\ \A c \in LockCallers : pc[c] = "idle"
  /\ loc.readers = {} /\ loc.writer = {}
  /\ log.cleared = 0
  /\ \E c \in LockCallers : loc.op[c] = "GetBackend" /\ log.ret[c] = "err"
  /\ HandedStore # {}

====
